---- MODULE Spec2Model ----
(***************************************************************************)
(* A model of the form server of backend/tests/agent_testing:              *)
(* FormServer (form_server.py) serving FormTemplate objects                *)
(* (form_template.py) page by page, with its per-session data store; and   *)
(* of the InteractionTracker (interaction_tracker.py) that records a test  *)
(* run's interactions and computes its metrics.                            *)
(*                                                                         *)
(* Conventions.                                                            *)
(*  - A Python str that the code inspects character by character (a        *)
(*    submitted value: truthiness, strip(), re.match) is a sequence of     *)
(*    one-character strings, so "" is <<>>.  A str that is only copied or  *)
(*    compared (identifiers, labels, messages) is a TLA+ string.           *)
(*  - A Python dict is a function; the empty dict is <<>>.  d.get(k) on a  *)
(*    missing key gives None, which the code only ever tests for truth, so *)
(*    the model tests key presence and emptiness instead.                  *)
(*  - None and "" for the optional `session` query parameter are both      *)
(*    falsy at line 78 and are both NoSession.                             *)
(*  - The session identifier f"{template_id}_{timestamp}" is the pair      *)
(*    <<template_id, timestamp>>.                                          *)
(*  - request.form() and request.files() are the request's body as read    *)
(*    by the framework; the model draws both with the request and lets the *)
(*    handler suspend at each of the two awaits.                           *)
(***************************************************************************)
EXTENDS Integers, Sequences, FiniteSets, TLC

VARIABLES
    templates,      \* FormServer.templates: template_id -> FormTemplate
    session_data,   \* FormServer.session_data: session id -> page_id -> page_data
    now,            \* the clock read by datetime.now().timestamp()
    handlers,       \* one record per request handler: its position, request, locals, response
    accepted,       \* history: <<session, template_id, page_id>> of every submission
                    \* that named a session and was answered by an advance, since
                    \* the session's identifier was last handed out by a begin request
    tracker,        \* the InteractionTracker object (interaction_tracker.py)
    call,           \* the last call made on the tracker: its name, arguments and
                    \* the exception it raised, if any
    runner,         \* the TestRunner object (test_runner.py) and the position of
                    \* its run_test / run_test_suite call
    filesystem,     \* the file system: filepath -> the document stored there
    parser,         \* the /parse request of resume_parser_microservice.py: its
                    \* locals, the calls it has made and its response
    loaded,         \* the last to_dict / from_dict call on a template document
    encryption      \* encryption_service.py: the EncryptionService objects made and
                    \* what was encrypted and decrypted with them
                    \* (form_template.py): its argument and what it returned

vars == <<templates, session_data, now, handlers, accepted, tracker, call, runner,
          filesystem, parser, loaded, encryption>>

(***************************************************************************)
(* Bounds                                                                  *)
(***************************************************************************)
MaxClock == 1
MaxSessions == 2

(***************************************************************************)
(* dict helpers                                                            *)
(***************************************************************************)
EmptyDict == <<>>

\* None of an Optional[str] attribute that the code copies or compares
NoneStr == "None"

Put(d, k, v) == [x \in (DOMAIN d) \cup {k} |-> IF x = k THEN v ELSE d[x]]

\* bool(d.get(k)) for a dict whose values are str or objects: a missing key
\* gives None (falsy), "" is falsy, every other value is truthy.
Truthy(d, k) == k \in DOMAIN d /\ d[k] # <<>>

(***************************************************************************)
(* str helpers                                                             *)
(***************************************************************************)
Whitespace == {" ", "\t", "\n"}

RECURSIVE LStrip(_)
LStrip(s) == IF s # <<>> /\ Head(s) \in Whitespace THEN LStrip(Tail(s)) ELSE s

RECURSIVE RStrip(_)
RStrip(s) ==
    IF s # <<>> /\ s[Len(s)] \in Whitespace THEN RStrip(SubSeq(s, 1, Len(s) - 1)) ELSE s

\* str.strip()
Strip(s) == RStrip(LStrip(s))

(***************************************************************************)
(* re.match(pattern, s): a pattern is a sequence of items, each a          *)
(* character class (chars, negated or not) with a quantifier: "1" exactly  *)
(* one, "+" one or more, "$" end of input.  re.match anchors at the start  *)
(* of s only.                                                              *)
(***************************************************************************)
InClass(item, c) == (c \in item.chars) # item.neg

RECURSIVE MatchHere(_, _, _, _)
MatchHere(pat, i, s, j) ==
    IF i > Len(pat) THEN TRUE
    ELSE IF pat[i].q = "$" THEN j > Len(s) /\ MatchHere(pat, i + 1, s, j)
    ELSE IF j > Len(s) \/ ~InClass(pat[i], s[j]) THEN FALSE
    ELSE IF pat[i].q = "1" THEN MatchHere(pat, i + 1, s, j + 1)
    ELSE MatchHere(pat, i + 1, s, j + 1) \/ MatchHere(pat, i, s, j + 1)

ReMatch(pattern, s) == MatchHere(pattern, 1, s, 1)

One(cs) == [chars |-> cs, neg |-> FALSE, q |-> "1"]
PlusNot(cs) == [chars |-> cs, neg |-> TRUE, q |-> "+"]
EndOfInput == [chars |-> {}, neg |-> FALSE, q |-> "$"]

\* r"^[^@\s]+@[^@\s]+\.[^@\s]+$"
EmailPattern ==
    << PlusNot({"@"} \cup Whitespace), One({"@"}), PlusNot({"@"} \cup Whitespace),
       One({"."}), PlusNot({"@"} \cup Whitespace), EndOfInput >>

\* r"^[^@]+$"
NoAtPattern == << PlusNot({"@"}), EndOfInput >>

NoPattern == <<>>

(***************************************************************************)
(* form_template.py: FieldType, FormField, FormPage, FormTemplate          *)
(***************************************************************************)
FieldType ==
    {"text", "email", "tel", "number", "date", "select", "checkbox", "radio",
     "textarea", "file", "hidden"}

\* FieldOption(value, label, is_default)
FieldOption(value, label, is_default) ==
    [value |-> value, label |-> label, is_default |-> is_default]

FormField(id, name, label, field_type, required, validation_pattern, validation_message) ==
    [id |-> id, name |-> name, label |-> label, field_type |-> field_type,
     required |-> required, placeholder |-> "",
     validation_pattern |-> validation_pattern,
     validation_message |-> validation_message,
     options |-> <<>>, expected_value_type |-> NoneStr, css_selector |-> NoneStr,
     css_class |-> NoneStr, help_text |-> NoneStr]

FormPage(page_id, title, fields, validation_required) ==
    [page_id |-> page_id, title |-> title, description |-> NoneStr, fields |-> fields,
     submit_button_text |-> "Continue", submit_button_selector |-> NoneStr,
     back_button_text |-> "", back_button_selector |-> NoneStr,
     validation_required |-> validation_required, css_theme |-> NoneStr]

FormTemplate(template_id, name, pages) ==
    [template_id |-> template_id, name |-> name, description |-> "", pages |-> pages,
     start_url |-> "/", success_url |-> "/success", failure_url |-> "/error",
     metadata |-> EmptyDict]

(***************************************************************************)
(* The templates the model registers.                                      *)
(***************************************************************************)
\* Page A: one required text field `name`; page B: one required email
\* field `email` with an email pattern.
TwoPageTemplate ==
    FormTemplate("two", "Two pages",
        << FormPage("A", "Page A",
               << FormField("name", "name", "Name", "text", TRUE, NoPattern, "") >>, TRUE),
           FormPage("B", "Page B",
               << FormField("email", "email", "Email", "email", TRUE, EmailPattern, "") >>,
               TRUE) >>)

\* One page A with one optional text field `nick`: no required field.
OptionalTemplate ==
    FormTemplate("opt", "Optional",
        << FormPage("A", "Page A",
               << FormField("nick", "nick", "Nickname", "text", FALSE, NoPattern, "") >>,
               TRUE) >>)

TemplatePool == {TwoPageTemplate}

(***************************************************************************)
(* Request inputs                                                          *)
(***************************************************************************)
NoSession == <<>>

Ann == <<"A", "n", "n">>
NotAnEmail == <<"n", "o", "t", "-", "a", "n", "-", "e", "m", "a", "i", "l">>
AnnAtExample ==
    <<"a", "n", "n", "@", "e", "x", "a", "m", "p", "l", "e", ".", "c", "o", "m">>
Blank == <<" ", "\t">>
PaddedAnn == <<" ", "A", "n", "n", " ">>

UploadFile == [filename |-> "cv.pdf"]

TemplateIdInputs == {t.template_id : t \in TemplatePool} \cup {"unknown"}

PageIdInputs ==
    UNION {{t.pages[i].page_id : i \in DOMAIN t.pages} : t \in TemplatePool} \cup {"nopage"}

\* every identifier start_application can build within the clock's range
SessionIds == {t.template_id : t \in TemplatePool} \X (0..MaxClock)

SessionInputs == SessionIds \cup {NoSession}

FieldNames(page, isFile) ==
    {page.fields[i].name : i \in {j \in DOMAIN page.fields :
                                     (page.fields[j].field_type = "file") = isFile}}

\* the dicts with keys among `keys`, the value of key k taken from vals[k]
RECURSIVE Dicts(_, _)
Dicts(keys, vals) ==
    IF keys = {} THEN {EmptyDict}
    ELSE LET k == CHOOSE x \in keys : TRUE
             rest == Dicts(keys \ {k}, vals)
         IN  rest \cup {Put(d, k, v) : d \in rest, v \in vals[k]}

\* what a client types into a field of the registered templates
ClientValues(name) == IF name = "email" THEN {NotAnEmail, AnnAtExample} ELSE {Ann}

\* The bodies a client posts to a page: a value for each of the page's own
\* field names (the handler reads no other key).  Bodies that leave fields
\* out or blank are those of SpecSubmit.
FormInputs(page) ==
    {d \in Dicts(FieldNames(page, FALSE),
                 [n \in FieldNames(page, FALSE) |-> ClientValues(n)]) :
        DOMAIN d = FieldNames(page, FALSE)}
FilesInputs(page) ==
    Dicts(FieldNames(page, TRUE), [n \in FieldNames(page, TRUE) |-> {UploadFile}])

(***************************************************************************)
(* form_server.py: rendering                                               *)
(***************************************************************************)
GenerateFieldHtml(field, error) ==
    [id |-> field.id, name |-> field.name, label |-> field.label,
     tag |-> IF field.field_type \in {"select", "radio", "checkbox", "textarea", "file"}
             THEN field.field_type
             ELSE IF field.field_type \in {"email", "tel", "number", "date"}
                  THEN field.field_type ELSE "text",
     required |-> field.required,
     placeholder |-> field.placeholder,
     options |-> IF field.field_type \in {"select", "radio"}
                 THEN [o \in DOMAIN field.options |->
                          [value |-> field.options[o].value,
                           label |-> field.options[o].label]]
                 ELSE <<>>,
     error |-> error]

\* the page with the session written into the form's target
GeneratePageHtmlWithSession(template, page, session, errors) ==
    [title |-> page.title,
     description |-> IF page.description \notin {NoneStr, ""}
                     THEN page.description ELSE "",
     action |-> session,
     fields |-> [i \in DOMAIN page.fields |->
                    GenerateFieldHtml(page.fields[i],
                        IF page.fields[i].name \in DOMAIN errors
                        THEN errors[page.fields[i].name] ELSE "")],
     back |-> page.back_button_text,
     submit |-> page.submit_button_text]

\* lines 132-177: `template` and `session` are parameters the body does not
\* read; the form has no action attribute and so carries no session
GeneratePageHtml(template, page, session, errors) ==
    [title |-> page.title,
     description |-> IF page.description \notin {NoneStr, ""}
                     THEN page.description ELSE "",
     action |-> NoSession,
     fields |-> [i \in DOMAIN page.fields |->
                    GenerateFieldHtml(page.fields[i],
                        IF page.fields[i].name \in DOMAIN errors
                        THEN errors[page.fields[i].name] ELSE "")],
     back |-> page.back_button_text,
     submit |-> page.submit_button_text]

(***************************************************************************)
(* form_server.py: _validate_page                                          *)
(***************************************************************************)
RequiredMessage(field) == field.label \o " is required"

\* the format message without the field's custom text
FormatMessageDefaultOnly(field) == field.label \o " format is invalid"

\* line 263: field.validation_message or f"{field.label} format is invalid"
FormatMessage(field) ==
    IF field.validation_message # "" THEN field.validation_message
    ELSE field.label \o " format is invalid"

\* the required check without the whitespace test of line 257
RequiredCheckNoStrip(field, form_data, files, errors) ==
    IF ~field.required THEN errors
    ELSE IF field.field_type = "file"
         THEN IF ~Truthy(files, field.name)
              THEN Put(errors, field.name, RequiredMessage(field)) ELSE errors
         ELSE IF ~Truthy(form_data, field.name)
              THEN Put(errors, field.name, RequiredMessage(field)) ELSE errors

\* lines 251-258: the required check of one field
RequiredCheck(field, form_data, files, errors) ==
    IF ~field.required THEN errors
    ELSE IF field.field_type = "file"
         THEN IF ~Truthy(files, field.name)
              THEN Put(errors, field.name, RequiredMessage(field)) ELSE errors
         ELSE IF ~Truthy(form_data, field.name) \/ Strip(form_data[field.name]) = <<>>
              THEN Put(errors, field.name, RequiredMessage(field)) ELSE errors

\* the pattern check as an else-branch of `if field.required`
PatternCheckOptionalOnly(field, form_data, errors) ==
    IF ~field.required
       /\ field.validation_pattern # NoPattern
       /\ Truthy(form_data, field.name)
       /\ ~ReMatch(field.validation_pattern, form_data[field.name])
    THEN Put(errors, field.name, FormatMessage(field))
    ELSE errors

\* lines 260-263: the pattern check of one field
PatternCheck(field, form_data, errors) ==
    IF field.validation_pattern # NoPattern
       /\ Truthy(form_data, field.name)
       /\ ~ReMatch(field.validation_pattern, form_data[field.name])
    THEN Put(errors, field.name, FormatMessage(field))
    ELSE errors

RECURSIVE ValidateFrom(_, _, _, _, _)
ValidateFrom(page, i, form_data, files, errors) ==
    IF i > Len(page.fields) THEN errors
    ELSE ValidateFrom(page, i + 1, form_data, files,
             PatternCheck(page.fields[i], form_data,
                 RequiredCheck(page.fields[i], form_data, files, errors)))

ValidatePage(page, form_data, files) == ValidateFrom(page, 1, form_data, files, EmptyDict)

(***************************************************************************)
(* form_server.py: lookups                                                 *)
(***************************************************************************)
\* next((i for i, p in enumerate(pages) if p.page_id == page_id), -1), 1-based; 0 for -1
PageIndex(pages, page_id) ==
    LET hits == {i \in DOMAIN pages : pages[i].page_id = page_id}
    IN  IF hits = {} THEN 0 ELSE CHOOSE i \in hits : \A j \in hits : i <= j

HasPage(template, page_id) == PageIndex(template.pages, page_id) # 0

\* next((p for p in template.pages if p.page_id == page_id), None)
FindPage(template, page_id) == template.pages[PageIndex(template.pages, page_id)]

(***************************************************************************)
(* Responses                                                               *)
(***************************************************************************)
NotFound(detail) == [kind |-> "404", detail |-> detail]
ServerError == [kind |-> "500"]
RedirectToPage(page_id, session) ==
    [kind |-> "redirect", page_id |-> page_id, session |-> session]
RedirectToSuccess(session) == [kind |-> "success", session |-> session]
Html(template, page, session, errors) ==
    [kind |-> "html", html |-> GeneratePageHtml(template, page, session, errors),
     errors |-> errors]

(***************************************************************************)
(* form_server.py: submit_page after its awaits                            *)
(***************************************************************************)
\* lines 82-91: the page_data collected from the request
PageData(page, form_data, files) ==
    [n \in {page.fields[i].name : i \in
              {j \in DOMAIN page.fields :
                  IF page.fields[j].field_type = "file"
                  THEN Truthy(files, page.fields[j].name)
                  ELSE Truthy(form_data, page.fields[j].name)}} |->
        IF n \in DOMAIN files /\ n \in FieldNames(page, TRUE)
        THEN [filename |-> files[n].filename, size |-> 0]
        ELSE form_data[n]]

\* the store rebuilt around the one session instead of updated in place
StorePageFresh(sd, session, page, form_data, files) ==
    IF session = NoSession THEN sd
    ELSE Put(EmptyDict, session,
             Put(IF session \in DOMAIN sd THEN sd[session] ELSE EmptyDict,
                 page.page_id, PageData(page, form_data, files)))

\* lines 78-93: the store
StorePage(sd, session, page, form_data, files) ==
    IF session = NoSession THEN sd
    ELSE LET base == IF session \in DOMAIN sd THEN sd ELSE Put(sd, session, EmptyDict)
         IN  Put(base, session,
                 Put(base[session], page.page_id, PageData(page, form_data, files)))

\* the validator is run whatever the page's flag says
SubmitErrorsOfAnyPage(page, form_data, files) == ValidatePage(page, form_data, files)

\* lines 95-99: the errors that stop the submission
SubmitErrors(page, form_data, files) ==
    IF page.validation_required THEN ValidatePage(page, form_data, files) ELSE EmptyDict

\* the redirect taken one index too far, skipping a page
AdvanceOffByOne(template, page_id, session) ==
    LET current_index == PageIndex(template.pages, page_id)
    IN  IF current_index < Len(template.pages) - 1
        THEN RedirectToPage(template.pages[current_index + 2].page_id, session)
        ELSE RedirectToSuccess(session)

\* lines 101-110: where an accepted submission goes
Advance(template, page_id, session) ==
    LET current_index == PageIndex(template.pages, page_id)
    IN  IF current_index < Len(template.pages)
        THEN RedirectToPage(template.pages[current_index + 1].page_id, session)
        ELSE RedirectToSuccess(session)

\* lines 95-110: the response
SubmitResponse(template, page, session, form_data, files) ==
    LET errors == SubmitErrors(page, form_data, files)
    IN  IF errors # EmptyDict THEN Html(template, page, session, errors)
        ELSE Advance(template, page.page_id, session)

(***************************************************************************)
(* The store in which SpecRace starts its two handlers.                    *)
(***************************************************************************)
RaceSession == <<"two", 0>>

\* the session has been begun and its page A accepted with name = "Ann"
RaceBase ==
    Put(EmptyDict, RaceSession, Put(EmptyDict, "A", Put(EmptyDict, "name", Ann)))

\* the store as it was when the handler's request arrived, before its awaits
SessionDataAtArrival == RaceBase

\* self.session_data as the handler finds it when it resumes at line 78
CurrentSessionData == session_data

(***************************************************************************)
(* The tracker before an InteractionTracker is constructed.                *)
(***************************************************************************)
NoTracker == <<>>
NoCall == [op |-> "none"]

(***************************************************************************)
(* No TestRunner constructed; no /parse request received.                  *)
(***************************************************************************)
NoRunner == [pc |-> "none"]
NoRequest == [pc |-> "none"]
NoEncryption == [pc |-> "none"]

(***************************************************************************)
(* Handlers                                                                *)
(***************************************************************************)
Idle == [pc |-> "idle"]
Done(req, resp) == [pc |-> "done", req |-> req, resp |-> resp]
Free(k) == handlers[k].pc \in {"idle", "done"}

Init ==
    /\ templates = EmptyDict
    /\ session_data = EmptyDict
    /\ now = 0
    /\ handlers = [k \in {1} |-> Idle]
    /\ accepted = {}
    /\ tracker = NoTracker
    /\ call = NoCall
    /\ runner = NoRunner
    /\ filesystem = EmptyDict
    /\ parser = NoRequest
    /\ loaded = NoCall
    /\ encryption = NoEncryption

\* register_template
RegisterTemplate(t) ==
    /\ templates' = Put(templates, t.template_id, t)
    /\ UNCHANGED <<session_data, now, handlers, accepted, tracker, call,
                    runner, filesystem, parser, loaded, encryption>>

\* the wall clock advances
Tick ==
    /\ now < MaxClock
    /\ now' = now + 1
    /\ UNCHANGED <<templates, session_data, handlers, accepted, tracker, call,
                    runner, filesystem, parser, loaded, encryption>>

\* GET /apply/{template_id}
StartApplication(k, template_id) ==
    LET req == [op |-> "start", template_id |-> template_id]
        session_id == <<template_id, now>>
    IN  /\ Free(k)
        /\ IF template_id \notin DOMAIN templates
           THEN /\ handlers' = [handlers EXCEPT ![k] = Done(req, NotFound("Template not found"))]
                /\ UNCHANGED <<session_data, accepted, tracker, call,
                                runner, filesystem, parser, loaded, encryption>>
           ELSE /\ Cardinality(DOMAIN session_data \cup {session_id}) <= MaxSessions
                /\ session_data' = Put(session_data, session_id, EmptyDict)
                /\ accepted' = {a \in accepted : a[1] # session_id}
                /\ handlers' = [handlers EXCEPT ![k] =
                       Done(req,
                            IF templates[template_id].pages = <<>> THEN ServerError
                            ELSE RedirectToPage(templates[template_id].pages[1].page_id,
                                                session_id))]
        /\ UNCHANGED <<templates, now, tracker, call, runner, filesystem, parser, loaded, encryption>>

\* GET /apply/{template_id}/page/{page_id}
ShowPage(k, template_id, page_id, session) ==
    LET req == [op |-> "show", template_id |-> template_id, page_id |-> page_id,
                session |-> session]
    IN  /\ Free(k)
        /\ handlers' = [handlers EXCEPT ![k] =
               Done(req,
                    IF template_id \notin DOMAIN templates
                    THEN NotFound("Template not found")
                    ELSE IF ~HasPage(templates[template_id], page_id)
                         THEN NotFound("Page not found")
                         ELSE Html(templates[template_id],
                                   FindPage(templates[template_id], page_id),
                                   session, EmptyDict))]
        /\ UNCHANGED <<templates, session_data, now, accepted, tracker, call,
                        runner, filesystem, parser, loaded, encryption>>

\* POST /apply/{template_id}/page/{page_id}, lines 66-75: up to `await request.form()`
SubmitPage(k, template_id, page_id, session) ==
    /\ Free(k)
    /\ IF template_id \notin DOMAIN templates
       THEN handlers' = [handlers EXCEPT ![k] =
                Done([op |-> "submit", template_id |-> template_id, page_id |-> page_id,
                      session |-> session, form_data |-> EmptyDict, files |-> EmptyDict],
                     NotFound("Template not found"))]
       ELSE IF ~HasPage(templates[template_id], page_id)
       THEN handlers' = [handlers EXCEPT ![k] =
                Done([op |-> "submit", template_id |-> template_id, page_id |-> page_id,
                      session |-> session, form_data |-> EmptyDict, files |-> EmptyDict],
                     NotFound("Page not found"))]
       ELSE \E form_data \in FormInputs(FindPage(templates[template_id], page_id)),
               files \in FilesInputs(FindPage(templates[template_id], page_id)) :
                handlers' = [handlers EXCEPT ![k] =
                    [pc |-> "form",
                     req |-> [op |-> "submit", template_id |-> template_id,
                              page_id |-> page_id, session |-> session,
                              form_data |-> form_data, files |-> files],
                     template |-> templates[template_id],
                     page |-> FindPage(templates[template_id], page_id)]]
    /\ UNCHANGED <<templates, session_data, now, accepted, tracker, call,
                    runner, filesystem, parser, loaded, encryption>>

\* submit_page resumes from `await request.form()` and suspends at `await request.files()`
SubmitForm(k) ==
    /\ handlers[k].pc = "form"
    /\ handlers' = [handlers EXCEPT ![k].pc = "files"]
    /\ UNCHANGED <<templates, session_data, now, accepted, tracker, call,
                    runner, filesystem, parser, loaded, encryption>>

\* submit_page resumes from `await request.files()` and runs lines 78-110
SubmitFinish(k) ==
    LET h == handlers[k]
        resp == SubmitResponse(h.template, h.page, h.req.session, h.req.form_data, h.req.files)
        stored == StorePage(CurrentSessionData, h.req.session, h.page, h.req.form_data, h.req.files)
    IN  /\ h.pc = "files"
        /\ Cardinality(DOMAIN stored) <= MaxSessions
        /\ session_data' = stored
        /\ handlers' = [handlers EXCEPT ![k] = Done(h.req, resp)]
        /\ accepted' = IF resp.kind \in {"redirect", "success"} /\ h.req.session # NoSession
                       THEN accepted \cup {<<h.req.session, h.template.template_id,
                                             h.page.page_id>>}
                       ELSE accepted
        /\ UNCHANGED <<templates, now, tracker, call, runner, filesystem, parser, loaded, encryption>>

Next ==
    \/ \E t \in TemplatePool : RegisterTemplate(t)
    \/ Tick
    \/ \E k \in DOMAIN handlers, template_id \in TemplateIdInputs : StartApplication(k, template_id)
    \/ \E k \in DOMAIN handlers, template_id \in TemplateIdInputs, page_id \in PageIdInputs,
          session \in SessionInputs : ShowPage(k, template_id, page_id, session)
    \/ \E k \in DOMAIN handlers, template_id \in TemplateIdInputs, page_id \in PageIdInputs,
          session \in SessionInputs : SubmitPage(k, template_id, page_id, session)
    \/ \E k \in DOMAIN handlers : SubmitForm(k)
    \/ \E k \in DOMAIN handlers : SubmitFinish(k)

Spec == Init /\ [][Next]_vars

(***************************************************************************)
(* The whole of submit_page run without interruption, from a given store.  *)
(***************************************************************************)
Serve(tpls, sd, req) ==
    IF req.template_id \notin DOMAIN tpls
    THEN [sd |-> sd, resp |-> NotFound("Template not found")]
    ELSE IF ~HasPage(tpls[req.template_id], req.page_id)
    THEN [sd |-> sd, resp |-> NotFound("Page not found")]
    ELSE LET template == tpls[req.template_id]
             page == FindPage(template, req.page_id)
         IN  [sd |-> StorePage(sd, req.session, page, req.form_data, req.files),
              resp |-> SubmitResponse(template, page, req.session, req.form_data, req.files)]

(***************************************************************************)
(* SpecSubmit: one submission, suspended at its first await, of any page   *)
(* of a family of templates, with any body.                                *)
(***************************************************************************)
FamilyFields ==
    {FormField("f", "f", "F", ft, rq, pat, msg) :
        ft \in {"text", "file"}, rq \in BOOLEAN,
        pat \in {NoPattern, EmailPattern, NoAtPattern}, msg \in {"", "Enter a valid value"}}

SecondField == FormField("g", "g", "G", "text", TRUE, NoPattern, "")

FamilyPages ==
    {FormPage("p", "Page p", fs, vr) :
        fs \in {<<f>> : f \in FamilyFields} \cup {<<f, SecondField>> : f \in FamilyFields},
        vr \in BOOLEAN}

PrevPage == FormPage("prev", "Previous", <<>>, TRUE)
NextPage == FormPage("next", "Next", <<>>, TRUE)

TemplateFamily ==
    {FormTemplate("fam", "Family", ps) :
        ps \in UNION {{<<p>>, <<p, NextPage>>, <<PrevPage, p>>, <<PrevPage, p, NextPage>>} :
                         p \in FamilyPages}}

FamilySession == <<"fam", 0>>

FamilyValues(name) ==
    IF name = "f" THEN {<<>>, Blank, Ann, PaddedAnn, AnnAtExample} ELSE {Blank, Ann}

FamilyForms(page) ==
    Dicts(FieldNames(page, FALSE) \cup FieldNames(page, TRUE),
          [n \in FieldNames(page, FALSE) \cup FieldNames(page, TRUE) |-> FamilyValues(n)])

InitSubmit ==
    \E t \in TemplateFamily, session \in {NoSession, FamilySession} :
        \E form_data \in FamilyForms(FindPage(t, "p")),
           files \in FilesInputs(FindPage(t, "p")) :
            /\ templates = Put(EmptyDict, t.template_id, t)
            /\ session_data = Put(EmptyDict, FamilySession, EmptyDict)
            /\ now = 0
            /\ handlers = [k \in {1} |->
                              [pc |-> "form",
                               req |-> [op |-> "submit", template_id |-> t.template_id,
                                        page_id |-> "p", session |-> session,
                                        form_data |-> form_data, files |-> files],
                               template |-> t,
                               page |-> FindPage(t, "p")]]
            /\ accepted = {}
            /\ tracker = NoTracker
            /\ call = NoCall
            /\ runner = NoRunner
            /\ filesystem = EmptyDict
            /\ parser = NoRequest
        /\ loaded = NoCall
        /\ encryption = NoEncryption

NextSubmit ==
    \/ \E k \in DOMAIN handlers : SubmitForm(k)
    \/ \E k \in DOMAIN handlers : SubmitFinish(k)

SpecSubmit == InitSubmit /\ [][NextSubmit]_vars

(***************************************************************************)
(* SpecRace: two submissions for one session, both suspended at their      *)
(* first await, resumed in any order.                                      *)
(***************************************************************************)
\* the bodies of the two requests: each field filled in or left out
RaceForms(page) ==
    Dicts(FieldNames(page, FALSE), [n \in FieldNames(page, FALSE) |-> ClientValues(n)])

RaceRequests ==
    UNION {{[op |-> "submit", template_id |-> "two", page_id |-> page_id,
             session |-> RaceSession, form_data |-> form_data, files |-> EmptyDict] :
               form_data \in RaceForms(FindPage(TwoPageTemplate, page_id))} :
            page_id \in {"A", "B"}}

InitRace ==
    \E r1 \in RaceRequests, r2 \in RaceRequests :
        /\ templates = Put(EmptyDict, "two", TwoPageTemplate)
        /\ session_data = RaceBase
        /\ now = 0
        /\ handlers = [k \in {1, 2} |->
                          [pc |-> "form",
                           req |-> IF k = 1 THEN r1 ELSE r2,
                           template |-> TwoPageTemplate,
                           page |-> FindPage(TwoPageTemplate,
                                             IF k = 1 THEN r1.page_id ELSE r2.page_id)]]
        /\ accepted = {<<RaceSession, "two", "A">>}
        /\ tracker = NoTracker
        /\ call = NoCall
        /\ runner = NoRunner
        /\ filesystem = EmptyDict
        /\ parser = NoRequest
        /\ loaded = NoCall
        /\ encryption = NoEncryption

NextRace ==
    \/ \E k \in DOMAIN handlers : SubmitForm(k)
    \/ \E k \in DOMAIN handlers : SubmitFinish(k)

SpecRace == InitRace /\ [][NextRace]_vars

(***************************************************************************)
(* SpecBind: two registered templates; every session is created by a begin *)
(* request, and page requests carry the identifier of a stored session     *)
(* together with either template.                                          *)
(***************************************************************************)
BindTemplates == {TwoPageTemplate, OptionalTemplate}

InitBind ==
    /\ templates = [tid \in {t.template_id : t \in BindTemplates} |->
                       CHOOSE t \in BindTemplates : t.template_id = tid]
    /\ session_data = EmptyDict
    /\ now = 0
    /\ handlers = [k \in {1} |-> Idle]
    /\ accepted = {}
    /\ tracker = NoTracker
    /\ call = NoCall
    /\ runner = NoRunner
    /\ filesystem = EmptyDict
    /\ parser = NoRequest
    /\ loaded = NoCall
    /\ encryption = NoEncryption

NextBind ==
    \/ \E k \in DOMAIN handlers, template_id \in DOMAIN templates :
          StartApplication(k, template_id)
    \/ \E k \in DOMAIN handlers, template_id \in DOMAIN templates, page_id \in {"A", "B"},
          session \in DOMAIN session_data : ShowPage(k, template_id, page_id, session)
    \/ \E k \in DOMAIN handlers, template_id \in DOMAIN templates, page_id \in {"A", "B"},
          session \in DOMAIN session_data : SubmitPage(k, template_id, page_id, session)
    \/ \E k \in DOMAIN handlers : SubmitForm(k)
    \/ \E k \in DOMAIN handlers : SubmitFinish(k)

SpecBind == InitBind /\ [][NextBind]_vars

(***************************************************************************)
(* interaction_tracker.py: the dataclasses.                                *)
(*  - None of an Optional[str] is NoneStr, None of an Optional[Any] value  *)
(*    is NoneValue, None of an Optional[datetime] or Optional[float] is    *)
(*    NoTime.                                                              *)
(*  - A float that the code computes by division is the pair               *)
(*    <<numerator, denominator>>; 0.0 is <<0, 1>>.                         *)
(***************************************************************************)
NoneValue == <<"None">>
NoTime == -1

\* bool(x) for an Optional[str]
StrTruthy(x) == x # NoneStr /\ x # ""

InteractionType ==
    {"page_load", "field_fill", "field_fill_attempt", "button_click",
     "button_click_attempt", "dropdown_select", "checkbox_toggle", "radio_select",
     "file_upload", "navigation", "validation_error", "page_timeout",
     "element_not_found"}

\* The attributes of an Interaction that the tracker only stores (timestamp,
\* element_selector, element_label, page_title, duration_ms, metadata) are
\* left out; the events of a log are told apart by their position.
Interaction(interaction_type, element_id, action, value, success, error_message, page_url) ==
    [interaction_type |-> interaction_type,
     element_id |-> element_id, action |-> action, value |-> value,
     success |-> success, error_message |-> error_message, page_url |-> page_url]

FieldInteraction(field_id, field_name, field_label, field_type, required) ==
    [field_id |-> field_id, field_name |-> field_name, field_label |-> field_label,
     field_type |-> field_type, required |-> required, attempts |-> <<>>,
     final_value |-> NoneValue, was_filled |-> FALSE, was_filled_correctly |-> FALSE,
     validation_errors |-> <<>>]

PageMetrics(page_id, page_url, page_title) ==
    [page_id |-> page_id, page_url |-> page_url, page_title |-> page_title,
     fields_filled |-> 0, fields_filled_correctly |-> 0, buttons_clicked |-> 0,
     buttons_click_attempts |-> 0, validation_errors |-> 0,
     interactions |-> <<>>, field_interactions |-> EmptyDict]

ZeroPercent == <<0, 1>>

TestSessionMetrics(session_id, template_id, start_time) ==
    [session_id |-> session_id, template_id |-> template_id,
     start_time |-> start_time, end_time |-> NoTime,
     pages_visited |-> <<>>, pages_metrics |-> EmptyDict,
     total_interactions |-> 0, successful_interactions |-> 0, failed_interactions |-> 0,
     fields_filled |-> 0, fields_filled_correctly |-> 0,
     buttons_clicked |-> 0, buttons_failed |-> 0, validation_errors |-> 0,
     total_duration_ms |-> NoTime, success |-> FALSE,
     completion_percentage |-> ZeroPercent]

\* InteractionTracker.__init__
InteractionTracker(session_id, template_id, start_time) ==
    [session_id |-> session_id, template_id |-> template_id, start_time |-> start_time,
     interactions |-> <<>>, current_page_id |-> NoneStr, current_page_url |-> NoneStr,
     metrics |-> TestSessionMetrics(session_id, template_id, start_time)]

(***************************************************************************)
(* interaction_tracker.py: track_interaction                               *)
(***************************************************************************)
\* the counters with failures left uncounted
CountOutcomeSuccessOnly(metrics, success) ==
    [metrics EXCEPT !.total_interactions = @ + 1,
                    !.successful_interactions = IF success THEN @ + 1 ELSE @]

\* lines 159-164: the session's interaction counters
CountOutcome(metrics, success) ==
    [metrics EXCEPT !.total_interactions = @ + 1,
                    !.successful_interactions = IF success THEN @ + 1 ELSE @,
                    !.failed_interactions = IF success THEN @ ELSE @ + 1]

\* the page's entry made anew whether or not it is there
EnsurePageAlwaysNew(pages_metrics, page_id, page_url, page_title) ==
    Put(pages_metrics, page_id, PageMetrics(page_id, page_url, page_title))

\* lines 168-173 and 193-198: the page's entry, created when missing
EnsurePage(pages_metrics, page_id, page_url, page_title) ==
    IF page_id \in DOMAIN pages_metrics THEN pages_metrics
    ELSE Put(pages_metrics, page_id, PageMetrics(page_id, page_url, page_title))

\* lines 179-186: the page's counters
CountOnPage(page_metrics, interaction_type, success) ==
    IF interaction_type = "field_fill" /\ success
    THEN [page_metrics EXCEPT !.fields_filled = @ + 1]
    ELSE IF interaction_type = "button_click" /\ success
    THEN [page_metrics EXCEPT !.buttons_clicked = @ + 1]
    ELSE IF interaction_type = "button_click_attempt"
    THEN [page_metrics EXCEPT !.buttons_click_attempts = @ + 1]
    ELSE IF interaction_type = "validation_error"
    THEN [page_metrics EXCEPT !.validation_errors = @ + 1]
    ELSE page_metrics

\* the interaction is appended to the log of every page known so far
TrackInteractionOnEveryPage(t, interaction_type, element_id, action, value, success, error_message, page_url) ==
    LET interaction ==
            Interaction(interaction_type, element_id, action, value, success,
                        error_message,
                        IF StrTruthy(page_url) THEN page_url ELSE t.current_page_url)
        t1 == [t EXCEPT !.interactions = Append(@, interaction),
                        !.metrics = CountOutcome(@, success)]
    IN  [t1 EXCEPT !.metrics.pages_metrics =
            [q \in DOMAIN @ |-> [@[q] EXCEPT !.interactions = Append(@, interaction)]]]

\* lines 126-186
TrackInteraction(t, interaction_type, element_id, action, value, success, error_message, page_url) ==
    LET interaction ==
            Interaction(interaction_type, element_id, action, value, success,
                        error_message,
                        IF StrTruthy(page_url) THEN page_url ELSE t.current_page_url)
        t1 == [t EXCEPT !.interactions = Append(@, interaction),
                        !.metrics = CountOutcome(@, success)]
    IN  IF ~StrTruthy(t.current_page_id) THEN t1
        ELSE LET pms == EnsurePage(t1.metrics.pages_metrics, t.current_page_id,
                                   IF StrTruthy(t.current_page_url)
                                   THEN t.current_page_url ELSE "", "")
                 page_metrics == [pms[t.current_page_id] EXCEPT
                                     !.interactions = Append(@, interaction)]
             IN  [t1 EXCEPT !.metrics.pages_metrics =
                     Put(pms, t.current_page_id,
                         CountOnPage(page_metrics, interaction_type, success))]

(***************************************************************************)
(* interaction_tracker.py: set_current_page, track_field_fill,             *)
(* track_button_click                                                      *)
(***************************************************************************)
\* lines 200-201
Visit(pages_visited, page_id) ==
    IF \E i \in DOMAIN pages_visited : pages_visited[i] = page_id THEN pages_visited
    ELSE Append(pages_visited, page_id)

\* lines 188-207
SetCurrentPage(t, page_id, page_url, page_title) ==
    LET t1 == [t EXCEPT !.current_page_id = page_id,
                        !.current_page_url = page_url,
                        !.metrics.pages_metrics = EnsurePage(@, page_id, page_url, page_title),
                        !.metrics.pages_visited = Visit(@, page_id)]
    IN  TrackInteraction(t1, "page_load", NoneStr, NoneStr, NoneValue, TRUE,
                         NoneStr, page_url)

\* the field's record updated by an attempt whatever its outcome
UpdateFieldTrackingAnyOutcome(field_tracking, attempt, value, success, error_message) ==
    [field_tracking EXCEPT
        !.attempts = Append(@, attempt),
        !.was_filled = IF success THEN TRUE ELSE @,
        !.final_value = value,
        !.validation_errors = IF ~success /\ StrTruthy(error_message)
                              THEN Append(@, error_message) ELSE @]

\* lines 247-254: the field's record updated by an attempt
UpdateFieldTracking(field_tracking, attempt, value, success, error_message) ==
    [field_tracking EXCEPT
        !.attempts = Append(@, attempt),
        !.was_filled = IF success THEN TRUE ELSE @,
        !.final_value = IF success THEN value ELSE @,
        !.validation_errors = IF ~success /\ StrTruthy(error_message)
                              THEN Append(@, error_message) ELSE @]

\* lines 209-254
TrackFieldFill(t, field_id, field_name, field_label, field_type, value, success, error_message) ==
    LET t1 == TrackInteraction(t,
                               IF success THEN "field_fill" ELSE "field_fill_attempt",
                               field_id, "fill", value, success, error_message, NoneStr)
        page_id == t1.current_page_id
    IN  IF ~StrTruthy(page_id) \/ page_id \notin DOMAIN t1.metrics.pages_metrics THEN t1
        ELSE LET page_metrics == t1.metrics.pages_metrics[page_id]
                 field_tracking ==
                     IF field_id \in DOMAIN page_metrics.field_interactions
                     THEN page_metrics.field_interactions[field_id]
                     ELSE FieldInteraction(field_id, field_name, field_label, field_type,
                                           FALSE)
             IN  [t1 EXCEPT !.metrics.pages_metrics[page_id].field_interactions =
                     Put(@, field_id,
                         UpdateFieldTracking(field_tracking,
                                             t1.interactions[Len(t1.interactions)],
                                             value, success, error_message))]

\* lines 256-282
TrackButtonClick(t, button_id, button_selector, button_text, success, error_message) ==
    LET t1 == TrackInteraction(t,
                               IF success THEN "button_click" ELSE "button_click_attempt",
                               button_id, "click", NoneValue, success, error_message,
                               NoneStr)
    IN  [t1 EXCEPT !.metrics.buttons_clicked = IF success THEN @ + 1 ELSE @,
                   !.metrics.buttons_failed = IF success THEN @ ELSE @ + 1]

(***************************************************************************)
(* interaction_tracker.py: finalize_session                                *)
(***************************************************************************)
\* the duration taken from the end back to the start
DurationMsReversed(start_time, end_time) == (start_time - end_time) * 1000

\* lines 287-289: (end_time - start_time).total_seconds() * 1000
DurationMs(start_time, end_time) == (end_time - start_time) * 1000

\* len([f for f in page.fields if f.required])
RequiredFields(page) == Cardinality({i \in DOMAIN page.fields : page.fields[i].required})

\* lines 293-296: the sum over the pages the generator ranges over
RECURSIVE TotalRequiredFields(_)
TotalRequiredFields(pages) ==
    IF pages = <<>> THEN 0
    ELSE RequiredFields(Head(pages)) + TotalRequiredFields(Tail(pages))

\* line 295: `for page in []`
PagesOfFinalize == <<>>

\* (a / b) * 100 as a fraction
Percentage(a, b) == <<a * 100, b>>

\* the division made without the test of line 298
CompletionPercentageUnguarded(metrics, total_required_fields) ==
    IF total_required_fields = 0
    THEN [raised |-> "ZeroDivisionError", value |-> metrics.completion_percentage]
    ELSE [raised |-> NoneStr,
          value |-> Percentage(metrics.fields_filled_correctly, total_required_fields)]

\* lines 298-301: the percentage, and the exception the division raises
CompletionPercentage(metrics, total_required_fields) ==
    IF total_required_fields > 0
    THEN [raised |-> NoneStr,
          value |-> Percentage(metrics.fields_filled_correctly, total_required_fields)]
    ELSE [raised |-> NoneStr, value |-> metrics.completion_percentage]

\* the call counted as one more interaction of the session
FinalizeSessionCounted(t, timestamp, success) ==
    [tracker |-> [t EXCEPT !.metrics.end_time = timestamp,
                           !.metrics.total_duration_ms = DurationMs(t.metrics.start_time, timestamp),
                           !.metrics.success = success,
                           !.metrics.total_interactions = @ + 1],
     raised |-> NoneStr]

\* lines 284-301: the tracker after the call and the exception raised
FinalizeSession(t, timestamp, success) ==
    LET t1 == [t EXCEPT !.metrics.end_time = timestamp,
                        !.metrics.total_duration_ms = DurationMs(t.metrics.start_time, timestamp),
                        !.metrics.success = success]
        c  == CompletionPercentage(t1.metrics, TotalRequiredFields(PagesOfFinalize))
    IN  [tracker |-> [t1 EXCEPT !.metrics.completion_percentage = c.value],
         raised |-> c.raised]

(***************************************************************************)
(* SpecTracker: one InteractionTracker, constructed for a session of one   *)
(* of two registered templates, and the calls a test run makes on it.      *)
(***************************************************************************)
MaxEvents == 3

\* the direct track_interaction calls: a fill reported as done, a
\* validation error reported as a failure
TrackedTypes == {<<"field_fill", TRUE>>, <<"validation_error", FALSE>>}
\* the values of successful fills; a failed fill attempts Ann
FillValues(success) == IF success THEN {Ann, AnnAtExample} ELSE {Ann}

PageUrl(template_id, page_id) == "/apply/" \o template_id \o "/page/" \o page_id

\* the pages and the fields of the template the tracker was constructed for
TrackerPages == templates[tracker.template_id].pages
TrackerFields ==
    UNION {{TrackerPages[i].fields[j] : j \in DOMAIN TrackerPages[i].fields} :
              i \in DOMAIN TrackerPages}

InitTracker ==
    \E template_id \in {"two", "opt"} :
        /\ templates = [tid \in {t.template_id : t \in BindTemplates} |->
                           CHOOSE t \in BindTemplates : t.template_id = tid]
        /\ session_data = EmptyDict
        /\ now = 0
        /\ handlers = [k \in {1} |-> Idle]
        /\ accepted = {}
        /\ tracker = InteractionTracker(template_id \o "_0", template_id, 0)
        /\ call = NoCall
        /\ runner = NoRunner
        /\ filesystem = EmptyDict
        /\ parser = NoRequest
        /\ loaded = NoCall
        /\ encryption = NoEncryption

CallTrackInteraction(interaction_type, element_id, success) ==
    /\ Len(tracker.interactions) < MaxEvents
    /\ tracker' = TrackInteraction(tracker, interaction_type, element_id, NoneStr,
                                   NoneValue, success, NoneStr, NoneStr)
    /\ call' = [op |-> "track_interaction", interaction_type |-> interaction_type,
                element_id |-> element_id, success |-> success, raised |-> NoneStr]
    /\ UNCHANGED <<templates, session_data, now, handlers, accepted,
                    runner, filesystem, parser, loaded, encryption>>

CallSetCurrentPage(page_id) ==
    /\ Len(tracker.interactions) < MaxEvents
    /\ tracker' = SetCurrentPage(tracker, page_id,
                                 PageUrl(tracker.template_id, page_id), "")
    /\ call' = [op |-> "set_current_page", page_id |-> page_id, raised |-> NoneStr]
    /\ UNCHANGED <<templates, session_data, now, handlers, accepted,
                    runner, filesystem, parser, loaded, encryption>>

CallTrackFieldFill(field, value, success) ==
    /\ Len(tracker.interactions) < MaxEvents
    /\ tracker' = TrackFieldFill(tracker, field.id, field.name, field.label,
                                 field.field_type, value, success,
                                 IF success THEN NoneStr ELSE "Element not found")
    /\ call' = [op |-> "track_field_fill", field_id |-> field.id, value |-> value,
                success |-> success, raised |-> NoneStr]
    /\ UNCHANGED <<templates, session_data, now, handlers, accepted,
                    runner, filesystem, parser, loaded, encryption>>

CallTrackButtonClick(success) ==
    /\ Len(tracker.interactions) < MaxEvents
    /\ tracker' = TrackButtonClick(tracker, NoneStr, "button[type=submit]", "Continue",
                                   success,
                                   IF success THEN NoneStr ELSE "Element not found")
    /\ call' = [op |-> "track_button_click", success |-> success, raised |-> NoneStr]
    /\ UNCHANGED <<templates, session_data, now, handlers, accepted,
                    runner, filesystem, parser, loaded, encryption>>

CallFinalizeSession(success) ==
    LET r == FinalizeSession(tracker, now, success)
    IN  /\ tracker' = r.tracker
        /\ call' = [op |-> "finalize_session", success |-> success, raised |-> r.raised]
        /\ UNCHANGED <<templates, session_data, now, handlers, accepted,
                        runner, filesystem, parser, loaded, encryption>>

NextTracker ==
    \/ Tick
    \/ \E tracked \in TrackedTypes : CallTrackInteraction(tracked[1], "name", tracked[2])
    \/ \E i \in DOMAIN TrackerPages : CallSetCurrentPage(TrackerPages[i].page_id)
    \/ \E field \in TrackerFields, success \in BOOLEAN :
          \E value \in FillValues(success) : CallTrackFieldFill(field, value, success)
    \/ \E success \in BOOLEAN : CallTrackButtonClick(success)
    \/ \E success \in BOOLEAN : CallFinalizeSession(success)

SpecTracker == InitTracker /\ [][NextTracker]_vars

(***************************************************************************)
(* interaction_tracker.py: export_to_json                                  *)
(***************************************************************************)
\* lines 318-333, interactions left out
ExportInteractionsSuccessfulOnly(t) ==
    LET RECURSIVE Keep(_)
        Keep(s) == IF s = <<>> THEN <<>>
                   ELSE IF Head(s).success
                        THEN <<[type |-> Head(s).interaction_type,
                                element_id |-> Head(s).element_id,
                                action |-> Head(s).action, value |-> Head(s).value,
                                success |-> Head(s).success,
                                error_message |-> Head(s).error_message,
                                page_url |-> Head(s).page_url]>> \o Keep(Tail(s))
                        ELSE Keep(Tail(s))
    IN  Keep(t.interactions)

\* lines 318-333: one dict per element of self.interactions, in list order;
\* str(i.value) of a str value is the value
ExportInteractions(t) ==
    [n \in DOMAIN t.interactions |->
        LET i == t.interactions[n]
        IN  [type |-> i.interaction_type, element_id |-> i.element_id,
             action |-> i.action,
             value |-> IF i.value # NoneValue THEN i.value ELSE NoneValue,
             success |-> i.success, error_message |-> i.error_message,
             page_url |-> i.page_url]]

\* lines 346-358: one summary per item of pages_metrics
ExportPages(t) ==
    [page_id \in DOMAIN t.metrics.pages_metrics |->
        LET pm == t.metrics.pages_metrics[page_id]
        IN  [page_id |-> pm.page_id, page_url |-> pm.page_url,
             fields_filled |-> pm.fields_filled,
             fields_filled_correctly |-> pm.fields_filled_correctly,
             buttons_clicked |-> pm.buttons_clicked,
             validation_errors |-> pm.validation_errors]]

\* lines 309-359: the document handed to json.dump
ExportToJson(t) ==
    [session_id |-> t.session_id, template_id |-> t.template_id,
     start_time |-> t.metrics.start_time, end_time |-> t.metrics.end_time,
     total_duration_ms |-> t.metrics.total_duration_ms,
     success |-> t.metrics.success,
     completion_percentage |-> t.metrics.completion_percentage,
     interactions |-> ExportInteractions(t),
     metrics |-> [total_interactions |-> t.metrics.total_interactions,
                  successful_interactions |-> t.metrics.successful_interactions,
                  failed_interactions |-> t.metrics.failed_interactions,
                  fields_filled |-> t.metrics.fields_filled,
                  fields_filled_correctly |-> t.metrics.fields_filled_correctly,
                  buttons_clicked |-> t.metrics.buttons_clicked,
                  buttons_failed |-> t.metrics.buttons_failed,
                  validation_errors |-> t.metrics.validation_errors],
     pages |-> ExportPages(t)]

(***************************************************************************)
(* SpecExport: a test run's calls on the tracker, followed by exports of   *)
(* the tracker to files.                                                   *)
(***************************************************************************)
MaxExportEvents == 2

ExportPaths == {"run.json", "copy.json"}

\* lines 307-362: open(filepath, 'w') and json.dump
CallExportToJson(filepath) ==
    /\ filesystem' = Put(filesystem, filepath, ExportToJson(tracker))
    /\ call' = [op |-> "export_to_json", filepath |-> filepath, raised |-> NoneStr]
    /\ UNCHANGED <<templates, session_data, now, handlers, accepted, tracker,
                    runner, parser, loaded, encryption>>

NextExport ==
    \/ /\ filesystem = EmptyDict
       /\ Len(tracker.interactions) < MaxExportEvents
       /\ NextTracker
    \/ \E filepath \in ExportPaths : CallExportToJson(filepath)

SpecExport == InitTracker /\ [][NextExport]_vars

(***************************************************************************)
(* test_runner.py: TestRunner                                              *)
(*                                                                         *)
(*  - An exception is its class name, its message str(e) and whether its   *)
(*    class derives from Exception (SystemExit, KeyboardInterrupt and      *)
(*    GeneratorExit derive from BaseException only).                       *)
(*  - The agent is code outside the runner: importing its module, looking  *)
(*    up its class, constructing it and running it each either raise an    *)
(*    exception of the agent's choosing or go on; run returns a flag.      *)
(*  - A result dict is a record; r.get(k, default) is Get(r, k, default).  *)
(*  - self.server.templates is the variable `templates`.                   *)
(***************************************************************************)
Exc(type, message, is_exception) ==
    [type |-> type, message |-> message, is_exception |-> is_exception]

NoException == Exc("None", "", FALSE)

\* lines 80-81 and 57-58
ServerNotStarted == Exc("RuntimeError", "Server not started. Call start_server() first.", TRUE)
\* lines 83-84
TemplateNotFound(template_id) ==
    Exc("ValueError", "Template '" \o template_id \o "' not found", TRUE)

\* the attributes FormServer.__init__ gives a server
FormServerAttributes == {"app", "port", "templates", "session_data"}

\* reading self.server.<name>
MissingAttribute(name) ==
    Exc("AttributeError", "'FormServer' object has no attribute '" \o name \o "'", TRUE)

\* what an agent can raise
AgentExceptions ==
    {Exc("ModuleNotFoundError", "No module named 'agents'", TRUE),
     Exc("TimeoutError", "Timeout 30000ms exceeded.", TRUE),
     Exc("KeyboardInterrupt", "", FALSE)}

\* one use of the agent: the stage that raises and what it raises, or
\* stage "return" and the flag agent.run returns
AgentStages == {"import", "getattr", "construct", "run"}
AgentRuns ==
    [stage : AgentStages, raises : AgentExceptions, success : {FALSE}]
    \cup [stage : {"return"}, raises : {NoException}, success : BOOLEAN]

Get(r, k, default) == IF k \in DOMAIN r THEN r[k] ELSE default

NoResult == <<>>
Returned(value) == [raised |-> NoException, value |-> value]
Raised(e) == [raised |-> e, value |-> NoResult]

TestUrl(template_id) == "http://127.0.0.1:8001/apply/" \o template_id

\* lines 96-161: the body of the try statement
TryBody(tpls, clock, template_id, agent) ==
    IF agent.stage # "return" THEN Raised(agent.raises)
    ELSE IF "trackers" \notin FormServerAttributes
         THEN Raised(MissingAttribute("trackers"))
         ELSE Returned([test_id |-> <<template_id, clock>>, template_id |-> template_id,
                        template_name |-> tpls[template_id].name,
                        test_url |-> TestUrl(template_id),
                        success |-> agent.success, session_id |-> NoneStr])

\* the handler catches one class only
ExceptModuleNotFoundOnly(outcome, template_id, clock) ==
    IF outcome.raised # NoException /\ outcome.raised.type = "ModuleNotFoundError"
    THEN Returned([test_id |-> <<template_id, clock>>, template_id |-> template_id,
                   success |-> FALSE, error |-> outcome.raised.message,
                   error_type |-> outcome.raised.type])
    ELSE outcome

\* lines 163-170: except Exception as e
Except(outcome, template_id, clock) ==
    IF outcome.raised # NoException /\ outcome.raised.is_exception
    THEN Returned([test_id |-> <<template_id, clock>>, template_id |-> template_id,
                   success |-> FALSE, error |-> outcome.raised.message,
                   error_type |-> outcome.raised.type])
    ELSE outcome

\* lines 61-170: what the call returns or raises
RunTest(server, tpls, clock, template_id, agent) ==
    IF ~server THEN Raised(ServerNotStarted)
    ELSE IF template_id \notin DOMAIN tpls THEN Raised(TemplateNotFound(template_id))
    ELSE Except(TryBody(tpls, clock, template_id, agent), template_id, clock)

(***************************************************************************)
(* test_runner.py: run_test_suite, lines 194-209                           *)
(***************************************************************************)
\* a + b for two floats
AddFloat(a, b) == <<a[1] * b[2] + b[1] * a[2], a[2] * b[2]>>

RECURSIVE CountSuccessful(_)
CountSuccessful(results) ==
    IF results = <<>> THEN 0
    ELSE (IF Get(Head(results), "success", FALSE) THEN 1 ELSE 0)
         + CountSuccessful(Tail(results))

RECURSIVE SumInteractions(_)
SumInteractions(results) ==
    IF results = <<>> THEN 0
    ELSE Get(Get(Head(results), "metrics", EmptyDict), "total_interactions", 0)
         + SumInteractions(Tail(results))

RECURSIVE SumCompletion(_)
SumCompletion(results) ==
    IF results = <<>> THEN ZeroPercent
    ELSE AddFloat(Get(Get(Head(results), "metrics", EmptyDict),
                      "completion_percentage", ZeroPercent),
                  SumCompletion(Tail(results)))

ZeroDivisionError == Exc("ZeroDivisionError", "division by zero", TRUE)

\* the summary computed without the guards on total_tests
SuiteSummaryUnguarded(results) ==
    LET total_tests == Len(results)
        successful_tests == CountSuccessful(results)
    IN  IF total_tests = 0 THEN Raised(ZeroDivisionError)
        ELSE Returned(
            [suite_summary |->
                [total_tests |-> total_tests,
                 successful_tests |-> successful_tests,
                 failed_tests |-> total_tests - successful_tests,
                 success_rate |-> <<successful_tests * 100, total_tests>>,
                 total_interactions |-> SumInteractions(results),
                 average_completion_percentage |->
                     <<SumCompletion(results)[1], SumCompletion(results)[2] * total_tests>>],
             test_results |-> results])

\* lines 194-210
SuiteSummary(results) ==
    LET total_tests == Len(results)
        successful_tests == CountSuccessful(results)
    IN  Returned(
            [suite_summary |->
                [total_tests |-> total_tests,
                 successful_tests |-> successful_tests,
                 failed_tests |-> total_tests - successful_tests,
                 success_rate |-> IF total_tests > 0
                                  THEN <<successful_tests * 100, total_tests>>
                                  ELSE ZeroPercent,
                 total_interactions |-> SumInteractions(results),
                 average_completion_percentage |->
                     IF total_tests > 0
                     THEN <<SumCompletion(results)[1],
                            SumCompletion(results)[2] * total_tests>>
                     ELSE ZeroPercent],
             test_results |-> results])

(***************************************************************************)
(* SpecRunner: one TestRunner and the calls made on it.                    *)
(***************************************************************************)
MaxSuite == 2

\* TestRunner.__init__: no server; no suite under way; no call made
TestRunner == [server |-> FALSE, pc |-> "idle", queue |-> <<>>, results |-> <<>>,
               last |-> NoCall]

SuiteTemplates == {TwoPageTemplate, OptionalTemplate}
RunnerTemplateIds == {t.template_id : t \in SuiteTemplates} \cup {"unknown"}

\* the lists of templates handed to run_test_suite
Suites == UNION {[1..n -> SuiteTemplates] : n \in 0..MaxSuite}

InitRunner ==
    /\ templates = EmptyDict
    /\ session_data = EmptyDict
    /\ now = 0
    /\ handlers = [k \in {1} |-> Idle]
    /\ accepted = {}
    /\ tracker = NoTracker
    /\ call = NoCall
    /\ runner = TestRunner
    /\ filesystem = EmptyDict
    /\ parser = NoRequest
    /\ loaded = NoCall
    /\ encryption = NoEncryption

\* start_server, lines 26-28: a new FormServer; the runner starts it once
StartServer ==
    /\ runner.pc = "idle"
    /\ ~runner.server
    /\ templates' = EmptyDict
    /\ runner' = [runner EXCEPT !.server = TRUE,
                                !.last = [op |-> "start_server", outcome |-> Returned(NoResult)]]
    /\ UNCHANGED <<session_data, now, handlers, accepted, tracker, call,
                    filesystem, parser, loaded, encryption>>

\* TestRunner.register_template, lines 55-59
RunnerRegisterTemplate(t) ==
    /\ runner.pc = "idle"
    /\ IF ~runner.server
       THEN /\ runner' = [runner EXCEPT !.last = [op |-> "register_template",
                                                  outcome |-> Raised(ServerNotStarted)]]
            /\ UNCHANGED templates
       ELSE /\ templates' = Put(templates, t.template_id, t)
            /\ runner' = [runner EXCEPT !.last = [op |-> "register_template",
                                                  outcome |-> Returned(NoResult)]]
    /\ UNCHANGED <<session_data, now, handlers, accepted, tracker, call,
                    filesystem, parser, loaded, encryption>>

\* run_test called by the user of the runner
CallRunTest(template_id, agent) ==
    /\ runner.pc = "idle"
    /\ runner' = [runner EXCEPT !.last =
           [op |-> "run_test", template_id |-> template_id, agent |-> agent,
            outcome |-> RunTest(runner.server, templates, now, template_id, agent)]]
    /\ UNCHANGED <<templates, session_data, now, handlers, accepted, tracker, call,
                    filesystem, parser, loaded, encryption>>

\* lines 181-182: the templates of the suite, registered in order
RECURSIVE RegisterAll(_, _)
RegisterAll(tpls, suite) ==
    IF suite = <<>> THEN tpls
    ELSE RegisterAll(Put(tpls, Head(suite).template_id, Head(suite)), Tail(suite))

\* run_test_suite, lines 180-184: registers the templates and starts the loop
CallRunTestSuite(suite) ==
    /\ runner.pc = "idle"
    /\ IF suite # <<>> /\ ~runner.server
       THEN /\ runner' = [runner EXCEPT !.last = [op |-> "run_test_suite", suite |-> suite,
                                                  outcome |-> Raised(ServerNotStarted)]]
            /\ UNCHANGED templates
       ELSE /\ templates' = RegisterAll(templates, suite)
            /\ runner' = [runner EXCEPT !.pc = "suite", !.queue = suite, !.results = <<>>,
                                        !.last = [op |-> "run_test_suite", suite |-> suite,
                                                  outcome |-> Returned(NoResult)]]
    /\ UNCHANGED <<session_data, now, handlers, accepted, tracker, call,
                    filesystem, parser, loaded, encryption>>

\* the result of a failed run is left out of the list
SuiteRunTestSkipFailed(agent) ==
    LET outcome == RunTest(runner.server, templates, now, Head(runner.queue).template_id,
                           agent)
    IN  /\ runner.pc = "suite"
        /\ runner.queue # <<>>
        /\ runner' =
             IF outcome.raised # NoException
             THEN [runner EXCEPT !.pc = "idle", !.queue = <<>>,
                                 !.last = [op |-> "run_test_suite", suite |-> runner.last.suite,
                                           outcome |-> outcome]]
             ELSE [runner EXCEPT !.queue = Tail(@),
                                 !.results = IF outcome.value.success
                                             THEN Append(@, outcome.value) ELSE @]
        /\ UNCHANGED <<templates, session_data, now, handlers, accepted, tracker, call,
                        filesystem, parser, loaded, encryption>>

\* lines 185-192: one turn of the loop; an exception that run_test lets
\* through ends run_test_suite
SuiteRunTest(agent) ==
    LET outcome == RunTest(runner.server, templates, now, Head(runner.queue).template_id,
                           agent)
    IN  /\ runner.pc = "suite"
        /\ runner.queue # <<>>
        /\ runner' =
             IF outcome.raised # NoException
             THEN [runner EXCEPT !.pc = "idle", !.queue = <<>>,
                                 !.last = [op |-> "run_test_suite", suite |-> runner.last.suite,
                                           outcome |-> outcome]]
             ELSE [runner EXCEPT !.queue = Tail(@),
                                 !.results = Append(@, outcome.value)]
        /\ UNCHANGED <<templates, session_data, now, handlers, accepted, tracker, call,
                        filesystem, parser, loaded, encryption>>

\* lines 194-210: the loop is over; the summary is returned
SuiteReturn ==
    /\ runner.pc = "suite"
    /\ runner.queue = <<>>
    /\ runner' = [runner EXCEPT !.pc = "idle",
                                !.last = [op |-> "run_test_suite", suite |-> runner.last.suite,
                                          outcome |-> SuiteSummary(runner.results)]]
    /\ UNCHANGED <<templates, session_data, now, handlers, accepted, tracker, call,
                    filesystem, parser, loaded, encryption>>

\* the clock is read only to name a test (lines 119 and 165): the runs of
\* one runner are followed at one value of it
NextRunner ==
    \/ StartServer
    \/ \E t \in SuiteTemplates : RunnerRegisterTemplate(t)
    \/ \E template_id \in RunnerTemplateIds, agent \in AgentRuns :
          CallRunTest(template_id, agent)
    \/ \E suite \in Suites : CallRunTestSuite(suite)
    \/ \E agent \in AgentRuns : SuiteRunTest(agent)
    \/ SuiteReturn

SpecRunner == InitRunner /\ [][NextRunner]_vars

(***************************************************************************)
(* form_template.py: to_dict and from_dict                                 *)
(*                                                                         *)
(*  - The document to_dict builds is a dict with str keys: a function on   *)
(*    strings.  A FieldType member is a str equal to its value, so         *)
(*    field_type.value is the member's string and FieldType(value) is the  *)
(*    value itself when it is one of the members' and a ValueError         *)
(*    otherwise.                                                           *)
(*  - from_dict evaluates the option, field and page lists before the      *)
(*    keys of the enclosing dict, so the first exception in that order is  *)
(*    the one the call raises.                                             *)
(***************************************************************************)
\* lines 89-92
OptionToDict(opt) ==
    [value |-> opt.value, label |-> opt.label, is_default |-> opt.is_default]

\* lines 80-98
FieldToDict(field) ==
    [id |-> field.id, name |-> field.name, label |-> field.label,
     field_type |-> field.field_type, required |-> field.required,
     placeholder |-> field.placeholder,
     validation_pattern |-> field.validation_pattern,
     validation_message |-> field.validation_message,
     options |-> [o \in DOMAIN field.options |-> OptionToDict(field.options[o])],
     expected_value_type |-> field.expected_value_type,
     css_selector |-> field.css_selector, css_class |-> field.css_class,
     help_text |-> field.help_text]

\* lines 75-106
PageToDict(page) ==
    [page_id |-> page.page_id, title |-> page.title, description |-> page.description,
     fields |-> [j \in DOMAIN page.fields |-> FieldToDict(page.fields[j])],
     submit_button_text |-> page.submit_button_text,
     submit_button_selector |-> page.submit_button_selector,
     back_button_text |-> page.back_button_text,
     back_button_selector |-> page.back_button_selector,
     validation_required |-> page.validation_required,
     css_theme |-> page.css_theme]

\* lines 70-114
ToDict(t) ==
    [template_id |-> t.template_id, name |-> t.name, description |-> t.description,
     pages |-> [i \in DOMAIN t.pages |-> PageToDict(t.pages[i])],
     start_url |-> t.start_url, success_url |-> t.success_url,
     failure_url |-> t.failure_url, metadata |-> t.metadata]

\* d[key] on a dict without the key
KeyError(key) == Exc("KeyError", "'" \o key \o "'", TRUE)

\* FieldType(value) for a value that no member has
InvalidFieldType(value) == Exc("ValueError", "'" \o value \o "' is not a valid FieldType", TRUE)

\* the KeyError of the first of the keys, read in this order, that d lacks
MissingKey(d, keys) ==
    IF \E n \in DOMAIN keys : keys[n] \notin DOMAIN d
    THEN Raised(KeyError(keys[CHOOSE n \in DOMAIN keys :
                                 /\ keys[n] \notin DOMAIN d
                                 /\ \A m \in 1..(n - 1) : keys[m] \in DOMAIN d]))
    ELSE Returned(NoResult)

\* a list built item by item: the first item that raises ends the call
FirstRaised(outs) ==
    IF \E n \in DOMAIN outs : outs[n].raised # NoException
    THEN Raised(outs[CHOOSE n \in DOMAIN outs :
                        /\ outs[n].raised # NoException
                        /\ \A m \in 1..(n - 1) : outs[m].raised = NoException].raised)
    ELSE Returned([n \in DOMAIN outs |-> outs[n].value])

\* is_default is not read from the document
OptionFromDictNeverDefault(opt) ==
    IF MissingKey(opt, <<"value", "label">>).raised # NoException
    THEN MissingKey(opt, <<"value", "label">>)
    ELSE Returned(FieldOption(opt["value"], opt["label"], FALSE))

\* lines 122-123
OptionFromDict(opt) ==
    IF MissingKey(opt, <<"value", "label">>).raised # NoException
    THEN MissingKey(opt, <<"value", "label">>)
    ELSE Returned(FieldOption(opt["value"], opt["label"], Get(opt, "is_default", FALSE)))

\* lines 121-139
FieldFromDict(field_data) ==
    LET options == FirstRaised([o \in DOMAIN Get(field_data, "options", <<>>) |->
                                   OptionFromDict(field_data["options"][o])])
        missing == MissingKey(field_data, <<"id", "name", "label", "field_type">>)
    IN  IF options.raised # NoException THEN options
        ELSE IF missing.raised # NoException THEN missing
        ELSE IF field_data["field_type"] \notin FieldType
             THEN Raised(InvalidFieldType(field_data["field_type"]))
        ELSE Returned(
            [FormField(field_data["id"], field_data["name"], field_data["label"],
                       field_data["field_type"], Get(field_data, "required", FALSE),
                       Get(field_data, "validation_pattern", NoPattern),
                       Get(field_data, "validation_message", ""))
             EXCEPT !.placeholder = Get(field_data, "placeholder", ""),
                    !.options = options.value,
                    !.expected_value_type = Get(field_data, "expected_value_type", NoneStr),
                    !.css_selector = Get(field_data, "css_selector", NoneStr),
                    !.css_class = Get(field_data, "css_class", NoneStr),
                    !.help_text = Get(field_data, "help_text", NoneStr)])

\* lines 119-151
PageFromDict(page_data) ==
    LET fields == FirstRaised([j \in DOMAIN Get(page_data, "fields", <<>>) |->
                                  FieldFromDict(page_data["fields"][j])])
        missing == MissingKey(page_data, <<"page_id", "title">>)
    IN  IF fields.raised # NoException THEN fields
        ELSE IF missing.raised # NoException THEN missing
        ELSE Returned(
            [FormPage(page_data["page_id"], page_data["title"], fields.value,
                      Get(page_data, "validation_required", TRUE))
             EXCEPT !.description = Get(page_data, "description", NoneStr),
                    !.submit_button_text = Get(page_data, "submit_button_text", "Continue"),
                    !.submit_button_selector =
                        Get(page_data, "submit_button_selector", NoneStr),
                    !.back_button_text = Get(page_data, "back_button_text", ""),
                    !.back_button_selector = Get(page_data, "back_button_selector", NoneStr),
                    !.css_theme = Get(page_data, "css_theme", NoneStr)])

\* lines 116-163
FromDict(data) ==
    LET pages == FirstRaised([i \in DOMAIN Get(data, "pages", <<>>) |->
                                 PageFromDict(data["pages"][i])])
        missing == MissingKey(data, <<"template_id", "name", "description">>)
    IN  IF pages.raised # NoException THEN pages
        ELSE IF missing.raised # NoException THEN missing
        ELSE Returned(
            [FormTemplate(data["template_id"], data["name"], pages.value)
             EXCEPT !.description = data["description"],
                    !.start_url = Get(data, "start_url", "/"),
                    !.success_url = Get(data, "success_url", "/success"),
                    !.failure_url = Get(data, "failure_url", "/error"),
                    !.metadata = Get(data, "metadata", EmptyDict)])

(***************************************************************************)
(* SpecTemplate: templates are constructed, serialized with to_dict,       *)
(* the document is passed to from_dict, as it is or with one key taken     *)
(* out, and the template from_dict returns is registered with the server.  *)
(***************************************************************************)
MaxTemplatePages == 2

CountryOptions ==
    << FieldOption("us", "United States", TRUE), FieldOption("ca", "Canada", FALSE) >>

\* a field with every optional attribute unset
PlainField == FormField("name", "name", "Name", "text", FALSE, NoPattern, "")

\* a field with every optional attribute set
CountryField ==
    [FormField("country", "country", "Country", "select", TRUE, NoAtPattern, "Pick one")
     EXCEPT !.placeholder = "Country", !.options = CountryOptions,
            !.expected_value_type = "str", !.css_selector = "#country",
            !.css_class = "wide", !.help_text = "Where you live"]

\* the pages templates are built from: without fields; with the attributes
\* at their defaults; with every attribute set; with the same field
\* identifier twice
PagePool ==
    { FormPage("A", "Empty", <<>>, TRUE),
      FormPage("A", "Page A", <<PlainField, CountryField>>, TRUE),
      [FormPage("B", "Page B", <<CountryField>>, FALSE)
       EXCEPT !.description = "Contact", !.submit_button_text = "Next",
              !.submit_button_selector = "#next", !.back_button_text = "Back",
              !.back_button_selector = "#back", !.css_theme = "dark"],
      FormPage("C", "Page C", <<PlainField, [CountryField EXCEPT !.id = "name"]>>, TRUE) }

\* the templates constructed: every list of up to MaxTemplatePages pages,
\* with the template's optional attributes unset or set
ConstructedTemplates ==
    LET lists == UNION {[1..n -> PagePool] : n \in 0..MaxTemplatePages}
    IN  {FormTemplate("t", "T", pages) : pages \in lists}
        \cup {[FormTemplate("t", "T", pages)
               EXCEPT !.description = "A form", !.start_url = "/start",
                      !.success_url = "/done", !.failure_url = "/failed",
                      !.metadata = [source |-> "greenhouse"]] : pages \in lists}

\* a key taken out of a document: at the template, in page `page`, or in
\* field `field` of page `page`
Removal(level, page, field, key) ==
    [level |-> level, page |-> page, field |-> field, key |-> key]
NoRemoval == Removal("none", 0, 0, "")

\* the keys from_dict reads with d[key], and the two lists it iterates
Removals(data) ==
    {Removal("template", 0, 0, key) : key \in {"template_id", "name", "description", "pages"}}
    \cup {Removal("page", i, 0, key) :
             i \in DOMAIN data["pages"], key \in {"page_id", "title", "fields"}}
    \cup UNION {{Removal("field", i, j, key) :
                    j \in DOMAIN data["pages"][i]["fields"],
                    key \in {"id", "name", "label", "field_type"}} :
                  i \in DOMAIN data["pages"]}

Without(d, key) == [k \in (DOMAIN d) \ {key} |-> d[k]]

RemoveAt(data, r) ==
    IF r.level = "template" THEN Without(data, r.key)
    ELSE IF r.level = "page"
         THEN [data EXCEPT !["pages"][r.page] = Without(@, r.key)]
         ELSE [data EXCEPT !["pages"][r.page]["fields"][r.field] = Without(@, r.key)]

InitTemplate ==
    /\ templates = EmptyDict
    /\ session_data = EmptyDict
    /\ now = 0
    /\ handlers = [k \in {1} |-> Idle]
    /\ accepted = {}
    /\ tracker = NoTracker
    /\ call = NoCall
    /\ runner = NoRunner
    /\ filesystem = EmptyDict
    /\ parser = NoRequest
    /\ loaded = NoCall
    /\ encryption = NoEncryption

\* FormTemplate(...) is constructed and to_dict is called on it; the run
\* follows one template up to its registration
CallToDict(t) ==
    /\ templates = EmptyDict
    /\ loaded' = [op |-> "to_dict", template |-> t, data |-> ToDict(t),
                  removed |-> NoRemoval]
    /\ UNCHANGED <<templates, session_data, now, handlers, accepted, tracker, call,
                    runner, filesystem, parser, encryption>>

\* the document loses one key before it is read back
RemoveKey(r) ==
    /\ loaded.op = "to_dict"
    /\ loaded' = [op |-> "edit", template |-> loaded.template,
                  data |-> RemoveAt(loaded.data, r), removed |-> r]
    /\ UNCHANGED <<templates, session_data, now, handlers, accepted, tracker, call,
                    runner, filesystem, parser, encryption>>

\* from_dict is called on the document
CallFromDict ==
    /\ loaded.op \in {"to_dict", "edit"}
    /\ loaded' = [op |-> "from_dict", template |-> loaded.template, data |-> loaded.data,
                  removed |-> loaded.removed, outcome |-> FromDict(loaded.data)]
    /\ UNCHANGED <<templates, session_data, now, handlers, accepted, tracker, call,
                    runner, filesystem, parser, encryption>>

\* FormServer.register_template on the template from_dict returned
RegisterLoaded ==
    /\ loaded.op = "from_dict"
    /\ loaded.outcome.raised = NoException
    /\ RegisterTemplate(loaded.outcome.value)

NextTemplate ==
    \/ \E t \in ConstructedTemplates : CallToDict(t)
    \/ /\ loaded.op = "to_dict"
       /\ \E r \in Removals(loaded.data) : RemoveKey(r)
    \/ CallFromDict
    \/ RegisterLoaded

SpecTemplate == InitTemplate /\ [][NextTemplate]_vars

(***************************************************************************)
(* resume_parser_microservice.py: POST /parse                              *)
(*                                                                         *)
(*  - parse_resume and validate_output call the language model and         *)
(*    send_to_endpoint calls the endpoint: what they return is the         *)
(*    environment's choice, and each of them can raise instead.  The       *)
(*    document parse_resume returns is named by the number of the attempt  *)
(*    that produced it.                                                    *)
(*  - parser.calls is the list of the calls the request has made, each     *)
(*    with its argument and what it returned; the handler does not read    *)
(*    it.                                                                  *)
(*  - An exception that leaves the handler is answered with status 500 by  *)
(*    the framework.                                                       *)
(***************************************************************************)
\* line 175
max_retries == 3

\* the reasons validate_output gives; "" when the model's answer has none
Reasons == {"", "dates do not match", "name is missing"}

\* request.endpoint and DEFAULT_ENDPOINT: unset, empty, or a URL
EndpointInputs == {NoneStr, "", "https://hooks.example/resume"}
DefaultEndpoints == {NoneStr, "", "https://default.example/resume"}

\* one entry of parser.calls
ParserCall(name, arg, raised, valid, reason) ==
    [call |-> name, arg |-> arg, raised |-> raised, valid |-> valid, reason |-> reason]

NoResponse == [status_code |-> 0]
\* line 195
Success(parsed) == [status_code |-> 200, status |-> "success", data |-> parsed]
\* line 194
SuccessForwarded(parsed, endpoint) ==
    [status_code |-> 200, status |-> "success", data |-> parsed,
     endpoint_response |-> endpoint]
\* line 201 and line 170
HttpError(status_code, detail) == [status_code |-> status_code, detail |-> detail]
\* an exception of parse_resume or validate_output, which nothing catches
InternalServerError == HttpError(500, "Internal Server Error")
\* the handler falls out of its loop and returns None
NullResponse == [status_code |-> 200, status |-> "null"]

\* the default endpoint taken whenever there is one
ChooseEndpointDefaultFirst(endpoint, default_endpoint) ==
    IF StrTruthy(default_endpoint) THEN default_endpoint ELSE endpoint

\* line 190: request.endpoint or default_endpoint
ChooseEndpoint(endpoint, default_endpoint) ==
    IF StrTruthy(endpoint) THEN endpoint ELSE default_endpoint

\* the reason of the first failure is kept
KeepFirstReason(validation_error, reason) ==
    IF validation_error = NoneStr THEN reason ELSE validation_error

\* line 198: validation_error = reason
NextValidationError(validation_error, reason) == reason

\* the test made one retry too late
ExhaustedLate(retry_count) == retry_count > max_retries

\* line 200: retry_count >= max_retries
Exhausted(retry_count) == retry_count >= max_retries

\* the module is imported: DEFAULT_ENDPOINT is read (line 43); no request
InitParser ==
    \E default_endpoint \in DefaultEndpoints :
        /\ templates = EmptyDict
        /\ session_data = EmptyDict
        /\ now = 0
        /\ handlers = [k \in {1} |-> Idle]
        /\ accepted = {}
        /\ tracker = NoTracker
        /\ call = NoCall
        /\ runner = NoRunner
        /\ filesystem = EmptyDict
        /\ parser = [pc |-> "idle", default_endpoint |-> default_endpoint]
        /\ loaded = NoCall
        /\ encryption = NoEncryption

\* lines 173-180: a request arrives; the locals are set and the loop is
\* entered, 0 being less than max_retries
ReceiveParse(endpoint) ==
    /\ parser.pc = "idle"
    /\ parser' = [pc |-> "parse",
                  default_endpoint |-> parser.default_endpoint,
                  endpoint |-> endpoint, retry_count |-> 0,
                  validation_error |-> NoneStr, parsed |-> 0, calls |-> <<>>,
                  response |-> NoResponse]
    /\ UNCHANGED <<templates, session_data, now, handlers, accepted, tracker, call,
                    runner, filesystem, loaded, encryption>>

\* line 183: parsed = parse_resume(request.plaintext, validation_error)
CallParseResume(raised) ==
    /\ parser.pc = "parse"
    /\ parser' =
         [parser EXCEPT
            !.calls = Append(@, ParserCall("parse_resume", parser.validation_error,
                                           raised, FALSE, "")),
            !.parsed = IF raised THEN @ ELSE parser.retry_count + 1,
            !.pc = IF raised THEN "done" ELSE "validate",
            !.response = IF raised THEN InternalServerError ELSE @]
    /\ UNCHANGED <<templates, session_data, now, handlers, accepted, tracker, call,
                    runner, filesystem, loaded, encryption>>

\* lines 186-201: is_valid, reason = validate_output(...) and the branch
\* taken on it, up to the next call
CallValidateOutput(raised, is_valid, reason) ==
    LET entry == ParserCall("validate_output", NoneStr, raised, is_valid, reason)
        endpoint == ChooseEndpoint(parser.endpoint, parser.default_endpoint)
        retry_count == parser.retry_count + 1
    IN  /\ parser.pc = "validate"
        /\ parser' =
             IF raised
             THEN [parser EXCEPT !.calls = Append(@, entry), !.pc = "done",
                                 !.response = InternalServerError]
             ELSE IF is_valid
             THEN IF StrTruthy(endpoint)
                  THEN [parser EXCEPT !.calls = Append(@, entry), !.pc = "send"]
                  ELSE [parser EXCEPT !.calls = Append(@, entry), !.pc = "done",
                                      !.response = Success(parser.parsed)]
             ELSE IF Exhausted(retry_count)
             THEN [parser EXCEPT
                      !.calls = Append(@, entry),
                      !.validation_error = NextValidationError(@, reason),
                      !.retry_count = retry_count, !.pc = "done",
                      !.response = HttpError(422, reason)]
             ELSE [parser EXCEPT
                      !.calls = Append(@, entry),
                      !.validation_error = NextValidationError(@, reason),
                      !.retry_count = retry_count,
                      !.pc = IF retry_count < max_retries THEN "parse" ELSE "done",
                      !.response = IF retry_count < max_retries THEN @ ELSE NullResponse]
        /\ UNCHANGED <<templates, session_data, now, handlers, accepted, tracker, call,
                        runner, filesystem, loaded, encryption>>

\* lines 193-194 and 164-170: result = send_to_endpoint(parsed, endpoint)
CallSendToEndpoint(raised) ==
    LET endpoint == ChooseEndpoint(parser.endpoint, parser.default_endpoint)
    IN  /\ parser.pc = "send"
        /\ parser' =
             [parser EXCEPT
                !.calls = Append(@, ParserCall("send_to_endpoint", endpoint, raised,
                                               FALSE, "")),
                !.pc = "done",
                !.response = IF raised THEN HttpError(500, "Endpoint error")
                             ELSE SuccessForwarded(parser.parsed, endpoint)]
        /\ UNCHANGED <<templates, session_data, now, handlers, accepted, tracker, call,
                        runner, filesystem, loaded, encryption>>

NextParser ==
    \/ \E endpoint \in EndpointInputs : ReceiveParse(endpoint)
    \/ \E raised \in BOOLEAN : CallParseResume(raised)
    \/ CallValidateOutput(TRUE, FALSE, "")
    \/ CallValidateOutput(FALSE, TRUE, "")
    \/ \E reason \in Reasons : CallValidateOutput(FALSE, FALSE, reason)
    \/ \E raised \in BOOLEAN : CallSendToEndpoint(raised)

\* Every call the handler makes returns or raises (the HTTP clients have
\* timeouts), so a request that can take a step takes one.
SpecParser == InitParser /\ [][NextParser]_vars /\ WF_vars(NextParser)

(***************************************************************************)
(* test_runner.py: start_server and its readiness probes                   *)
(*                                                                         *)
(*  - What requests.get meets on the port is the environment's choice: a   *)
(*    response with status 200 or another status, an exception (nothing    *)
(*    listens yet), or a peer that accepts the connection and never        *)
(*    answers.  The call at line 41 passes no timeout, so in the last case *)
(*    it does not return.                                                  *)
(*  - runner.probes is the list of what the probes met; start_server does  *)
(*    not read it.                                                         *)
(***************************************************************************)
\* line 38: max_retries = 10
start_server_max_retries == 10

ProbeAnswers == {"200", "503", "ConnectionError", "no answer"}

StartFailed == Exc("RuntimeError", "Failed to start test server", TRUE)

\* lines 26-39: the FormServer is made and its thread started; the loop is
\* entered
CallStartServer ==
    /\ runner.pc = "idle"
    /\ ~runner.server
    /\ templates' = EmptyDict
    /\ runner' = [runner EXCEPT !.server = TRUE, !.pc = "probe",
                                !.last = [op |-> "start_server", i |-> 0,
                                          probes |-> <<>>]]
    /\ UNCHANGED <<session_data, now, handlers, accepted, tracker, call,
                    filesystem, parser, loaded, encryption>>

\* line 39: for i in range(max_retries)
LoopGoesOn(i) == i < start_server_max_retries

\* lines 39-48: one turn of the loop.  A 200 returns (lines 42-44); another
\* status falls through to the next turn; an exception is swallowed and
\* followed by the sleep (lines 45-46); without an answer the call at line 41
\* stays where it is.  After the last turn line 48 raises.
Probe(answer) ==
    LET probes == Append(runner.last.probes, answer)
        i == runner.last.i + 1
    IN  /\ runner.pc = "probe"
        /\ runner' =
             IF answer = "no answer"
             THEN [runner EXCEPT !.pc = "requests.get", !.last.probes = probes]
             ELSE IF answer = "200"
             THEN [runner EXCEPT !.pc = "idle",
                      !.last = [op |-> "start_server", i |-> runner.last.i,
                                probes |-> probes, outcome |-> Returned(NoResult)]]
             ELSE IF LoopGoesOn(i)
             THEN [runner EXCEPT !.last.i = i, !.last.probes = probes]
             ELSE [runner EXCEPT !.pc = "idle",
                      !.last = [op |-> "start_server", i |-> runner.last.i,
                                probes |-> probes, outcome |-> Raised(StartFailed)]]
        /\ UNCHANGED <<templates, session_data, now, handlers, accepted, tracker, call,
                        filesystem, parser, loaded, encryption>>

NextStart ==
    \/ CallStartServer
    \/ \E answer \in ProbeAnswers : Probe(answer)

\* time.sleep returns, and a response or an exception ends requests.get:
\* start_server takes its next step whenever it has one.
SpecStart == InitRunner /\ [][NextStart]_vars /\ WF_vars(NextStart)

(***************************************************************************)
(* encryption_service.py                                                   *)
(*                                                                         *)
(*  - A str is the sequence of its characters, bytes the sequence of their *)
(*    values 0..255.  The characters are the printable ASCII ones and the  *)
(*    line feed; the grave accent is left out of them.                     *)
(*  - A profile is a JSON document as json.load gives it: a dict with str  *)
(*    keys whose values are str, int, bool, None, list or dict, each a     *)
(*    record that carries its type in t.  A dict is the sequence of its    *)
(*    items in insertion order.                                            *)
(*  - json.dumps, json.loads, str.encode, bytes.decode, b64encode and      *)
(*    b64decode are computed on the characters and bytes.                  *)
(*  - AESGCM is the cryptography library's.  Its stand-in adds key and     *)
(*    nonce to the data byte by byte and appends a 16-byte tag computed    *)
(*    from key, nonce and ciphertext; decrypt recomputes the tag and       *)
(*    raises InvalidTag when it differs, as the library does for a wrong   *)
(*    key, a wrong nonce or altered data.                                  *)
(***************************************************************************)
Printable ==
    <<" ", "!", "\"", "#", "$", "%", "&", "'", "(", ")", "*", "+",
      ",", "-", ".", "/", "0", "1", "2", "3", "4", "5", "6", "7",
      "8", "9", ":", ";", "<", "=", ">", "?", "@", "A", "B", "C",
      "D", "E", "F", "G", "H", "I", "J", "K", "L", "M", "N", "O",
      "P", "Q", "R", "S", "T", "U", "V", "W", "X", "Y", "Z", "[",
      "\\", "]", "^", "_", "grave accent", "a", "b", "c", "d", "e", "f", "g",
      "h", "i", "j", "k", "l", "m", "n", "o", "p", "q", "r", "s",
      "t", "u", "v", "w", "x", "y", "z", "{", "|", "}", "~">>

\* ord(c) and chr(n) of the characters
Ord(c) == IF c = "\n" THEN 10 ELSE 31 + (CHOOSE i \in DOMAIN Printable : Printable[i] = c)
IsAscii(n) == n = 10 \/ n \in 32..126
Chr(n) == IF n = 10 THEN "\n" ELSE Printable[n - 31]

\* s.encode('utf-8') of an ASCII str
str_encode(s) == [i \in 1..Len(s) |-> Ord(s[i])]

\* b.decode('utf-8') of ASCII bytes
bytes_decode(b) == [i \in 1..Len(b) |-> Chr(b[i])]

PyStr(s) == [t |-> "str", s |-> s]
PyInt(n) == [t |-> "int", n |-> n]
PyBool(b) == [t |-> "bool", b |-> b]
PyNone == [t |-> "NoneType"]
PyList(items) == [t |-> "list", items |-> items]
PyDict(items) == [t |-> "dict", items |-> items]

\* only the quotation mark is escaped
EscapeQuoteOnly(c) == IF c = "\"" THEN <<"\\", "\"">> ELSE <<c>>

\* json.dumps: the encoder's escapes of a str
EscapeChar(c) ==
    IF c = "\"" THEN <<"\\", "\"">>
    ELSE IF c = "\\" THEN <<"\\", "\\">>
    ELSE IF c = "\n" THEN <<"\\", "n">>
    ELSE <<c>>

RECURSIVE Escape(_)
Escape(s) == IF s = <<>> THEN <<>> ELSE EscapeChar(Head(s)) \o Escape(Tail(s))

Quote(s) == <<"\"">> \o Escape(s) \o <<"\"">>

DecimalDigits == <<"0", "1", "2", "3", "4", "5", "6", "7", "8", "9">>

RECURSIVE NatToStr(_)
NatToStr(n) ==
    IF n < 10 THEN <<DecimalDigits[n + 1]>>
    ELSE NatToStr(n \div 10) \o <<DecimalDigits[(n % 10) + 1]>>

IntToStr(n) == IF n < 0 THEN <<"-">> \o NatToStr(-n) ELSE NatToStr(n)

\* json.dumps(obj) with the default separators ", " and ": "
RECURSIVE json_dumps(_)
RECURSIVE DumpItems(_)
RECURSIVE DumpPairs(_)
DumpItems(items) ==
    IF items = <<>> THEN <<>>
    ELSE json_dumps(Head(items))
         \o (IF Len(items) > 1 THEN <<",", " ">> ELSE <<>>)
         \o DumpItems(Tail(items))

DumpPairs(items) ==
    IF items = <<>> THEN <<>>
    ELSE Quote(Head(items)[1]) \o <<":", " ">> \o json_dumps(Head(items)[2])
         \o (IF Len(items) > 1 THEN <<",", " ">> ELSE <<>>)
         \o DumpPairs(Tail(items))

json_dumps(obj) ==
    CASE obj.t = "str" -> Quote(obj.s)
      [] obj.t = "int" -> IntToStr(obj.n)
      [] obj.t = "bool" -> IF obj.b THEN <<"t", "r", "u", "e">>
                           ELSE <<"f", "a", "l", "s", "e">>
      [] obj.t = "NoneType" -> <<"n", "u", "l", "l">>
      [] obj.t = "list" -> <<"[">> \o DumpItems(obj.items) \o <<"]">>
      [] obj.t = "dict" -> <<"{">> \o DumpPairs(obj.items) \o <<"}">>

\* json.loads: the decoder.  A step of it gives the value read and the
\* position after it, or fails.
Fail == [ok |-> FALSE]
Ok(v, i) == [ok |-> TRUE, v |-> v, i |-> i]

JsonWhitespace == {" ", "\t", "\n", "\r"}

RECURSIVE SkipWs(_, _)
SkipWs(text, i) ==
    IF i <= Len(text) /\ text[i] \in JsonWhitespace THEN SkipWs(text, i + 1) ELSE i

At(text, i, c) == i <= Len(text) /\ text[i] = c

StartsWith(text, i, word) ==
    /\ i + Len(word) - 1 <= Len(text)
    /\ SubSeq(text, i, i + Len(word) - 1) = word

\* the characters of a str literal, from the position after its opening quote
RECURSIVE ParseString(_, _, _)
ParseString(text, i, acc) ==
    IF i > Len(text) \/ text[i] = "\n" THEN Fail
    ELSE IF text[i] = "\"" THEN Ok(acc, i + 1)
    ELSE IF text[i] = "\\"
    THEN IF i + 1 > Len(text) THEN Fail
         ELSE IF text[i + 1] \in {"\"", "\\", "/"}
         THEN ParseString(text, i + 2, Append(acc, text[i + 1]))
         ELSE IF text[i + 1] = "n" THEN ParseString(text, i + 2, Append(acc, "\n"))
         ELSE Fail
    ELSE ParseString(text, i + 1, Append(acc, text[i]))

DigitValue(c) == (CHOOSE k \in DOMAIN DecimalDigits : DecimalDigits[k] = c) - 1
IsDigit(text, i) == i <= Len(text) /\ \E k \in DOMAIN DecimalDigits : DecimalDigits[k] = text[i]

RECURSIVE ParseDigits(_, _, _)
ParseDigits(text, i, acc) ==
    IF IsDigit(text, i) THEN ParseDigits(text, i + 1, acc * 10 + DigitValue(text[i]))
    ELSE Ok(acc, i)

ParseInt(text, i) ==
    LET neg == At(text, i, "-")
        j == IF neg THEN i + 1 ELSE i
    IN  IF ~IsDigit(text, j) THEN Fail
        ELSE LET r == ParseDigits(text, j, 0)
             IN  Ok(PyInt(IF neg THEN -r.v ELSE r.v), r.i)

\* a key read again takes the new value and keeps its place
SetItem(items, k, v) ==
    IF \E n \in DOMAIN items : items[n][1] = k
    THEN [n \in DOMAIN items |-> IF items[n][1] = k THEN <<k, v>> ELSE items[n]]
    ELSE Append(items, <<k, v>>)

RECURSIVE ParseValue(_, _)
RECURSIVE ParseItems(_, _, _)
RECURSIVE ParsePairs(_, _, _)
\* the items of a list, from the position of an item
ParseItems(text, i, acc) ==
    LET r == ParseValue(text, i)
    IN  IF ~r.ok THEN Fail
        ELSE LET j == SkipWs(text, r.i)
             IN  IF At(text, j, ",") THEN ParseItems(text, j + 1, Append(acc, r.v))
                 ELSE IF At(text, j, "]") THEN Ok(PyList(Append(acc, r.v)), j + 1)
                 ELSE Fail

\* the items of a dict, from the position of a key
ParsePairs(text, i, acc) ==
    LET k == SkipWs(text, i)
    IN  IF ~At(text, k, "\"") THEN Fail
        ELSE LET key == ParseString(text, k + 1, <<>>)
             IN  IF ~key.ok THEN Fail
                 ELSE LET c == SkipWs(text, key.i)
                      IN  IF ~At(text, c, ":") THEN Fail
                          ELSE LET r == ParseValue(text, c + 1)
                               IN  IF ~r.ok THEN Fail
                                   ELSE LET j == SkipWs(text, r.i)
                                            items == SetItem(acc, key.v, r.v)
                                        IN  IF At(text, j, ",")
                                            THEN ParsePairs(text, j + 1, items)
                                            ELSE IF At(text, j, "}")
                                            THEN Ok(PyDict(items), j + 1)
                                            ELSE Fail

ParseValue(text, i0) ==
    LET i == SkipWs(text, i0)
    IN  IF i > Len(text) THEN Fail
        ELSE IF text[i] = "\""
        THEN LET r == ParseString(text, i + 1, <<>>)
             IN  IF r.ok THEN Ok(PyStr(r.v), r.i) ELSE Fail
        ELSE IF text[i] = "["
        THEN LET j == SkipWs(text, i + 1)
             IN  IF At(text, j, "]") THEN Ok(PyList(<<>>), j + 1)
                 ELSE ParseItems(text, j, <<>>)
        ELSE IF text[i] = "{"
        THEN LET j == SkipWs(text, i + 1)
             IN  IF At(text, j, "}") THEN Ok(PyDict(<<>>), j + 1)
                 ELSE ParsePairs(text, j, <<>>)
        ELSE IF StartsWith(text, i, <<"t", "r", "u", "e">>) THEN Ok(PyBool(TRUE), i + 4)
        ELSE IF StartsWith(text, i, <<"f", "a", "l", "s", "e">>) THEN Ok(PyBool(FALSE), i + 5)
        ELSE IF StartsWith(text, i, <<"n", "u", "l", "l">>) THEN Ok(PyNone, i + 4)
        ELSE ParseInt(text, i)

JSONDecodeError == Exc("JSONDecodeError", "Expecting value", TRUE)

\* json.loads(s)
json_loads(s) ==
    LET r == ParseValue(s, 1)
    IN  IF r.ok /\ SkipWs(s, r.i) = Len(s) + 1 THEN Returned(r.v)
        ELSE Raised(JSONDecodeError)


Base64Alphabet ==
    <<"A", "B", "C", "D", "E", "F", "G", "H", "I", "J", "K", "L", "M", "N", "O", "P",
      "Q", "R", "S", "T", "U", "V", "W", "X", "Y", "Z", "a", "b", "c", "d", "e", "f",
      "g", "h", "i", "j", "k", "l", "m", "n", "o", "p", "q", "r", "s", "t", "u", "v",
      "w", "x", "y", "z", "0", "1", "2", "3", "4", "5", "6", "7", "8", "9", "+", "/">>

\* b64encode(b): the 6-bit groups of the bytes, three bytes to four
\* characters; a last group of one or two bytes is padded with "="
b64encode(b) ==
    LET n == Len(b)
        Byte(k) == IF k <= n THEN b[k] ELSE 0
        Char(k) ==
            LET q == 3 * ((k - 1) \div 4)
                x == Byte(q + 1)
                y == Byte(q + 2)
                z == Byte(q + 3)
            IN  CASE (k - 1) % 4 = 0 -> Base64Alphabet[(x \div 4) + 1]
                  [] (k - 1) % 4 = 1 -> Base64Alphabet[((x % 4) * 16 + (y \div 16)) + 1]
                  [] (k - 1) % 4 = 2 ->
                        IF q + 2 > n THEN "="
                        ELSE Base64Alphabet[((y % 16) * 4 + (z \div 64)) + 1]
                  [] (k - 1) % 4 = 3 ->
                        IF q + 3 > n THEN "=" ELSE Base64Alphabet[(z % 64) + 1]
    IN  str_encode([k \in 1..(4 * ((n + 2) \div 3)) |-> Char(k)])

Base64Value(c) == (CHOOSE k \in DOMAIN Base64Alphabet : Base64Alphabet[k] = c) - 1
InBase64Alphabet(c) == \E k \in DOMAIN Base64Alphabet : Base64Alphabet[k] = c

\* the values of the characters of the alphabet that stand before the first
\* "="; the other characters are discarded
Base64Data(s) ==
    LET pads == {i \in DOMAIN s : s[i] = "="}
        end == IF pads = {} THEN Len(s)
               ELSE (CHOOSE i \in pads : \A j \in pads : i <= j) - 1
        kept == SelectSeq(SubSeq(s, 1, end), InBase64Alphabet)
    IN  [i \in 1..Len(kept) |-> Base64Value(kept[i])]

CountChar(s, c) == Cardinality({i \in DOMAIN s : s[i] = c})

\* the bytes of the 6-bit groups, four groups to three bytes
Base64Bytes(g) ==
    LET Byte(k) ==
            LET q == 4 * ((k - 1) \div 3)
            IN  CASE (k - 1) % 3 = 0 -> g[q + 1] * 4 + (g[q + 2] \div 16)
                  [] (k - 1) % 3 = 1 -> (g[q + 2] % 16) * 16 + (g[q + 3] \div 4)
                  [] (k - 1) % 3 = 2 -> (g[q + 3] % 4) * 64 + g[q + 4]
    IN  [k \in 1..((Len(g) * 6) \div 8) |-> Byte(k)]

IncorrectPadding == Exc("binascii.Error", "Incorrect padding", TRUE)

\* b64decode(s): a last group of fewer than four characters that lacks its
\* padding is refused
b64decode(s) ==
    LET g == Base64Data(s)
        r == Len(g) % 4
    IN  IF r = 1 \/ (r # 0 /\ CountChar(s, "=") < 4 - r)
        THEN Raised(IncorrectPadding)
        ELSE Returned(Base64Bytes(g))

RECURSIVE SumBytes(_, _)
SumBytes(b, n) == IF n = 0 THEN 0 ELSE b[n] + SumBytes(b, n - 1)

KeyByte(key, i) == key[((i - 1) % Len(key)) + 1]

Tag(key, nonce, ciphertext) ==
    [j \in 1..16 |->
        (KeyByte(key, j) + 3 * KeyByte(key, j + 16) + KeyByte(nonce, j)
         + SumBytes(ciphertext, Len(ciphertext)) + j) % 256]

InvalidTag == Exc("InvalidTag", "", TRUE)

\* AESGCM(key).encrypt(nonce, data, None): the ciphertext with its tag
AESGCM_encrypt(key, nonce, data) ==
    LET ciphertext ==
            [i \in 1..Len(data) |-> (data[i] + KeyByte(key, i) + KeyByte(nonce, i)) % 256]
    IN  ciphertext \o Tag(key, nonce, ciphertext)

\* AESGCM(key).decrypt(nonce, data, None)
AESGCM_decrypt(key, nonce, data) ==
    LET n == Len(data) - 16
        ciphertext == SubSeq(data, 1, n)
    IN  IF n < 0 \/ nonce = <<>> \/ SubSeq(data, n + 1, Len(data)) # Tag(key, nonce, ciphertext)
        THEN Raised(InvalidTag)
        ELSE Returned([i \in 1..n |->
                 (ciphertext[i] + 512 - KeyByte(key, i) - KeyByte(nonce, i)) % 256])

\* encrypt_profile, lines 22-39, with the nonce os.urandom gave
encrypt_profile(key, profile_data, nonce) ==
    LET json_str == json_dumps(profile_data)
        plaintext == str_encode(json_str)
        ciphertext == AESGCM_encrypt(key, nonce, plaintext)
    IN  [ciphertext |-> bytes_decode(b64encode(ciphertext)),
         nonce |-> bytes_decode(b64encode(nonce))]

UnicodeDecodeError == Exc("UnicodeDecodeError", "invalid start byte", TRUE)

\* decrypt_profile, lines 41-46
decrypt_profile(key, encrypted_data) ==
    LET ciphertext == b64decode(encrypted_data.ciphertext)
        nonce == b64decode(encrypted_data.nonce)
        plaintext == AESGCM_decrypt(key, nonce.value, ciphertext.value)
    IN  IF ciphertext.raised # NoException THEN ciphertext
        ELSE IF nonce.raised # NoException THEN nonce
        ELSE IF plaintext.raised # NoException THEN plaintext
        ELSE IF \E i \in DOMAIN plaintext.value : ~IsAscii(plaintext.value[i])
        THEN Raised(UnicodeDecodeError)
        ELSE json_loads(bytes_decode(plaintext.value))

ValueError(message) == Exc("ValueError", message, TRUE)

\* key=None, among bytes
NoneBytes == <<-1>>

\* EncryptionService.__init__, lines 9-17: the key of the new service, the
\* one AESGCM.generate_key gave when none was passed
EncryptionService(key, generated) ==
    IF key = NoneBytes THEN Returned(generated)
    ELSE IF Len(key) # 32 THEN Raised(ValueError("Key must be exactly 32 bytes for AES-256"))
    ELSE Returned(key)

(***************************************************************************)
(* SpecService: EncryptionService objects, one encrypted document and the  *)
(* calls made with them.  encryption.services is the list of the keys of   *)
(* the objects made, encryption.document the profile last encrypted with   *)
(* what encrypt_profile returned for it.                                   *)
(***************************************************************************)
MaxServices == 2

\* what AESGCM.generate_key and os.urandom(32) give
Keys == {[i \in 1..32 |-> 7], [i \in 1..32 |-> (i * 37) % 256]}

\* b"short_key", the key of test_invalid_key_length
ShortKey == <<115, 104, 111, 114, 116, 95, 107, 101, 121>>

\* what os.urandom(12) gives
Nonces == {[i \in 1..12 |-> 0], [i \in 1..12 |-> (i * 19 + 200) % 256]}

EmptyProfile == PyDict(<<>>)

\* {"name": "Ann", "age": 30}
SmallProfile ==
    PyDict(<< <<<<"n", "a", "m", "e">>, PyStr(<<"A", "n", "n">>)>>,
              <<<<"a", "g", "e">>, PyInt(30)>> >>)

\* {"note": "say \"hi\"\\\n", "tags": ["x", -7, true, null, []], "address": {"zip": "0"}}
NestedProfile ==
    PyDict(<< <<<<"n", "o", "t", "e">>,
                PyStr(<<"s", "a", "y", " ", "\"", "h", "i", "\"", "\\", "\n">>)>>,
              <<<<"t", "a", "g", "s">>,
                PyList(<<PyStr(<<"x">>), PyInt(-7), PyBool(TRUE), PyNone, PyList(<<>>)>>)>>,
              <<<<"a", "d", "d", "r", "e", "s", "s">>,
                PyDict(<< <<<<"z", "i", "p">>, PyStr(<<"0">>)>> >>)>> >>)

Profiles == {EmptyProfile, SmallProfile, NestedProfile}

NoDocument == [service |-> 0]

InitService ==
    /\ templates = EmptyDict
    /\ session_data = EmptyDict
    /\ now = 0
    /\ handlers = [k \in {1} |-> Idle]
    /\ accepted = {}
    /\ tracker = NoTracker
    /\ call = NoCall
    /\ runner = NoRunner
    /\ filesystem = EmptyDict
    /\ parser = NoRequest
    /\ loaded = NoCall
    /\ encryption = [services |-> <<>>, document |-> NoDocument, last |-> NoCall]

\* EncryptionService(key) or EncryptionService()
NewService(key, generated) ==
    LET outcome == EncryptionService(key, generated)
    IN  /\ Len(encryption.services) < MaxServices
        /\ encryption' =
             [encryption EXCEPT
                !.services = IF outcome.raised = NoException
                             THEN Append(@, outcome.value) ELSE @,
                !.last = [op |-> "__init__", outcome |-> outcome]]
        /\ UNCHANGED <<templates, session_data, now, handlers, accepted, tracker, call,
                        runner, filesystem, parser, loaded>>

\* services[s].encrypt_profile(profile_data); the run follows one document
CallEncryptProfile(s, profile_data, nonce) ==
    LET encrypted == encrypt_profile(encryption.services[s], profile_data, nonce)
    IN  /\ encryption.document = NoDocument
        /\ encryption' =
             [encryption EXCEPT
                !.document = [service |-> s, profile |-> profile_data,
                              encrypted |-> encrypted],
                !.last = [op |-> "encrypt_profile", service |-> s,
                          outcome |-> Returned(encrypted)]]
        /\ UNCHANGED <<templates, session_data, now, handlers, accepted, tracker, call,
                        runner, filesystem, parser, loaded>>

\* services[s].decrypt_profile(encrypted) of the document
CallDecryptProfile(s) ==
    /\ encryption.document # NoDocument
    /\ encryption' =
         [encryption EXCEPT
            !.last = [op |-> "decrypt_profile", service |-> s,
                      outcome |-> decrypt_profile(encryption.services[s],
                                                  encryption.document.encrypted)]]
    /\ UNCHANGED <<templates, session_data, now, handlers, accepted, tracker, call,
                    runner, filesystem, parser, loaded>>

NextService ==
    \/ \E key \in Keys \cup {ShortKey} : NewService(key, NoneBytes)
    \/ \E generated \in Keys : NewService(NoneBytes, generated)
    \/ \E s \in DOMAIN encryption.services, profile_data \in Profiles, nonce \in Nonces :
          CallEncryptProfile(s, profile_data, nonce)
    \/ \E s \in DOMAIN encryption.services : CallDecryptProfile(s)

SpecService == InitService /\ [][NextService]_vars

(***************************************************************************)
(* encryption_service.py: the key file and the two module functions        *)
(*                                                                         *)
(*  - A function that writes gives the files after the call with its       *)
(*    outcome.                                                             *)
(*  - encryption.sealed is the list of the profiles encrypted with what    *)
(*    encrypt_profile_simple returned for each; encryption.first is, per   *)
(*    key path, the content the key file had after the first call on that  *)
(*    path.  The functions read neither.                                   *)
(***************************************************************************)
\* save_key, lines 58-61
save_key(files, key, filepath) == Put(files, filepath, bytes_decode(b64encode(key)))

\* load_key, lines 63-67
load_key(files, filepath) == b64decode(Strip(files[filepath]))

\* a new key is made and saved on every call
encrypt_profile_simple_new_key(files, profile_data, key_filepath, generated, nonce) ==
    [files |-> save_key(files, generated, key_filepath),
     outcome |-> Returned(encrypt_profile(generated, profile_data, nonce))]

\* encrypt_profile_simple, lines 70-78
encrypt_profile_simple(files, profile_data, key_filepath, generated, nonce) ==
    IF key_filepath \in DOMAIN files
    THEN LET key == load_key(files, key_filepath)
             service == EncryptionService(key.value, generated)
         IN  [files |-> files,
              outcome |-> IF key.raised # NoException THEN key
                          ELSE IF service.raised # NoException THEN service
                          ELSE Returned(encrypt_profile(service.value, profile_data, nonce))]
    ELSE LET service == EncryptionService(NoneBytes, generated)
         IN  [files |-> save_key(files, service.value, key_filepath),
              outcome |-> Returned(encrypt_profile(service.value, profile_data, nonce))]

FileNotFoundError(filepath) ==
    Exc("FileNotFoundError", "Key file not found: " \o filepath, TRUE)

\* decrypt_profile_simple, lines 81-87
decrypt_profile_simple(files, encrypted_data, key_filepath) ==
    IF key_filepath \notin DOMAIN files THEN Raised(FileNotFoundError(key_filepath))
    ELSE LET key == load_key(files, key_filepath)
             service == EncryptionService(key.value, NoneBytes)
         IN  IF key.raised # NoException THEN key
             ELSE IF service.raised # NoException THEN service
             ELSE decrypt_profile(service.value, encrypted_data)

(***************************************************************************)
(* SpecSimple: calls of the two module functions, the encrypting ones on   *)
(* the default key path, starting without a key file.                      *)
(***************************************************************************)
MaxSimpleCalls == 2

DefaultKeyPath == "encryption.key"
KeyPaths == {DefaultKeyPath, "missing.key"}

SimpleProfiles == {SmallProfile, NestedProfile}

InitSimple ==
    /\ templates = EmptyDict
    /\ session_data = EmptyDict
    /\ now = 0
    /\ handlers = [k \in {1} |-> Idle]
    /\ accepted = {}
    /\ tracker = NoTracker
    /\ call = NoCall
    /\ runner = NoRunner
    /\ filesystem = EmptyDict
    /\ parser = NoRequest
    /\ loaded = NoCall
    /\ encryption = [sealed |-> <<>>, first |-> EmptyDict, last |-> NoCall]

\* encrypt_profile_simple(profile_data) with the default key path
CallEncryptProfileSimple(profile_data, generated, nonce) ==
    LET r == encrypt_profile_simple(filesystem, profile_data, DefaultKeyPath, generated,
                                    nonce)
    IN  /\ Len(encryption.sealed) < MaxSimpleCalls
        /\ filesystem' = r.files
        /\ encryption' =
             [encryption EXCEPT
                !.sealed = IF r.outcome.raised = NoException
                           THEN Append(@, [profile |-> profile_data,
                                           encrypted |-> r.outcome.value])
                           ELSE @,
                !.first = IF DefaultKeyPath \in DOMAIN @ THEN @
                          ELSE Put(@, DefaultKeyPath, r.files[DefaultKeyPath]),
                !.last = [op |-> "encrypt_profile_simple", outcome |-> r.outcome]]
        /\ UNCHANGED <<templates, session_data, now, handlers, accepted, tracker, call,
                        runner, parser, loaded>>

\* decrypt_profile_simple(encrypted, key_filepath) of the n-th ciphertext
CallDecryptProfileSimple(n, key_filepath) ==
    /\ encryption' =
         [encryption EXCEPT
            !.last = [op |-> "decrypt_profile_simple", n |-> n,
                      key_filepath |-> key_filepath,
                      outcome |-> decrypt_profile_simple(filesystem,
                                      encryption.sealed[n].encrypted, key_filepath)]]
    /\ UNCHANGED <<templates, session_data, now, handlers, accepted, tracker, call,
                    runner, filesystem, parser, loaded>>

NextSimple ==
    \/ \E profile_data \in SimpleProfiles, generated \in Keys, nonce \in Nonces :
          CallEncryptProfileSimple(profile_data, generated, nonce)
    \/ \E n \in DOMAIN encryption.sealed, key_filepath \in KeyPaths :
          CallDecryptProfileSimple(n, key_filepath)

SpecSimple == InitSimple /\ [][NextSimple]_vars

(***************************************************************************)
(* SpecBegin: templates are registered, one of them without pages, and     *)
(* begin requests are made for them.                                       *)
(***************************************************************************)
\* FormTemplate("empty", "No pages", ""): pages defaults to []
EmptyTemplate == FormTemplate("empty", "No pages", <<>>)

BeginTemplates == {TwoPageTemplate, OptionalTemplate, EmptyTemplate}
BeginTemplateIds == {t.template_id : t \in BeginTemplates}

NextBegin ==
    \/ \E t \in BeginTemplates : RegisterTemplate(t)
    \/ Tick
    \/ \E k \in DOMAIN handlers, template_id \in BeginTemplateIds :
          StartApplication(k, template_id)

SpecBegin == Init /\ [][NextBegin]_vars

(***************************************************************************)
(* Vocabulary of the properties                                            *)
(***************************************************************************)
\* a field fails required validation: a required file field without an
\* upload, or any other required field whose value is absent or empty
\* after trimming whitespace
FailsRequired(field, form_data, files) ==
    /\ field.required
    /\ IF field.field_type = "file" THEN ~Truthy(files, field.name)
       ELSE ~Truthy(form_data, field.name) \/ Strip(form_data[field.name]) = <<>>

\* a field fails pattern validation: it has a pattern, a value is present
\* and the value does not match
FailsPattern(field, form_data) ==
    /\ field.validation_pattern # NoPattern
    /\ Truthy(form_data, field.name)
    /\ ~ReMatch(field.validation_pattern, form_data[field.name])

FailingNames(page, form_data, files) ==
    {page.fields[i].name : i \in {j \in DOMAIN page.fields :
        FailsRequired(page.fields[j], form_data, files)
        \/ FailsPattern(page.fields[j], form_data)}}

\* handler k holds the answer to a submission that reached validation
Submitted(k) ==
    /\ handlers[k].pc = "done"
    /\ handlers[k].req.op = "submit"
    /\ handlers[k].resp.kind # "404"

\* the page a finished submission named, in the registered template
SubmittedTemplate(k) == templates[handlers[k].req.template_id]
SubmittedPage(k) == FindPage(SubmittedTemplate(k), handlers[k].req.page_id)
SubmittedIndex(k) == PageIndex(SubmittedTemplate(k).pages, handlers[k].req.page_id)

IsError(resp) == resp.kind \in {"404", "500"}

\* C1: a submission of the page at index i that is not answered by a
\* re-render with errors is answered by the redirect to the page at index
\* i+1, or by the redirect to success when i is the last index; and a
\* submission in which no field fails is not answered by a re-render.
C1_CleanSubmissionAdvances ==
    \A k \in DOMAIN handlers :
        Submitted(k) =>
            LET h == handlers[k]
                pages == SubmittedTemplate(k).pages
                i == SubmittedIndex(k)
                clean == FailingNames(SubmittedPage(k), h.req.form_data, h.req.files) = {}
            IN  /\ clean => h.resp.kind # "html"
                /\ h.resp.kind # "html" =>
                      IF i = Len(pages) THEN h.resp = RedirectToSuccess(h.req.session)
                      ELSE h.resp = RedirectToPage(pages[i + 1].page_id, h.req.session)

\* C1 witness: the middle page of three was submitted clean and answered by
\* the redirect to the third
C1_Witness ==
    \E k \in DOMAIN handlers :
        /\ Submitted(k)
        /\ Len(SubmittedTemplate(k).pages) = 3
        /\ SubmittedIndex(k) = 2
        /\ SubmittedPage(k).validation_required
        /\ handlers[k].resp = RedirectToPage("next", handlers[k].req.session)

\* C2 as stated: whenever some field of the submitted page fails required
\* or pattern validation, the answer is a re-render of that page whose
\* errors are keyed by exactly the names of the failing fields.
C2_FailingFieldStopsEveryPage ==
    \A k \in DOMAIN handlers :
        Submitted(k) =>
            LET h == handlers[k]
                failing == FailingNames(SubmittedPage(k), h.req.form_data, h.req.files)
            IN  failing # {} =>
                    /\ h.resp.kind = "html"
                    /\ h.resp.html = GeneratePageHtml(SubmittedTemplate(k), SubmittedPage(k),
                                                    h.req.session, h.resp.errors)
                    /\ DOMAIN h.resp.errors = failing

\* C2 amended: the same, for a page whose validation_required flag is set.
C2_FailingFieldStopsValidatedPage ==
    \A k \in DOMAIN handlers :
        Submitted(k) /\ SubmittedPage(k).validation_required =>
            LET h == handlers[k]
                failing == FailingNames(SubmittedPage(k), h.req.form_data, h.req.files)
            IN  failing # {} =>
                    /\ h.resp.kind = "html"
                    /\ h.resp.html = GeneratePageHtml(SubmittedTemplate(k), SubmittedPage(k),
                                                    h.req.session, h.resp.errors)
                    /\ DOMAIN h.resp.errors = failing

\* C2 witness: a two-field page re-rendered with an error for its first
\* field only, the second field having passed
C2_Witness ==
    \E k \in DOMAIN handlers :
        /\ Submitted(k)
        /\ Len(SubmittedPage(k).fields) = 2
        /\ handlers[k].resp.kind = "html"
        /\ DOMAIN handlers[k].resp.errors = {"f"}
        /\ handlers[k].req.form_data["f"] = Blank

\* C7: on the two-page template, page A submitted with name = "Ann" is
\* answered by the redirect to page B; page B submitted with
\* email = "not-an-email" is answered by page B re-rendered with exactly one
\* error, keyed email; page B submitted with a valid address is answered by
\* the redirect to success.
C7_EndToEndScenario ==
    \A k \in DOMAIN handlers :
        (Submitted(k) /\ handlers[k].req.template_id = "two") =>
            LET h == handlers[k]
                pageB == TwoPageTemplate.pages[2]
            IN  /\ (h.req.page_id = "A" /\ h.req.form_data = Put(EmptyDict, "name", Ann))
                      => h.resp = RedirectToPage("B", h.req.session)
                /\ (h.req.page_id = "B" /\ h.req.form_data = Put(EmptyDict, "email", NotAnEmail))
                      => /\ h.resp.kind = "html"
                         /\ DOMAIN h.resp.errors = {"email"}
                         /\ h.resp.html = GeneratePageHtml(TwoPageTemplate, pageB, h.req.session,
                                                         h.resp.errors)
                /\ (h.req.page_id = "B" /\ h.req.form_data = Put(EmptyDict, "email", AnnAtExample))
                      => h.resp = RedirectToSuccess(h.req.session)

\* C7 witness: a session whose page A was accepted with name = "Ann" has
\* had page B re-rendered for email = "not-an-email"
C7_Witness ==
    \E k \in DOMAIN handlers, s \in DOMAIN session_data :
        /\ Submitted(k)
        /\ handlers[k].req.session = s
        /\ handlers[k].req.page_id = "B"
        /\ handlers[k].req.form_data = Put(EmptyDict, "email", NotAnEmail)
        /\ handlers[k].resp.kind = "html"
        /\ <<s, "two", "A">> \in accepted
        /\ "A" \in DOMAIN session_data[s]
        /\ session_data[s]["A"] = Put(EmptyDict, "name", Ann)

(***************************************************************************)
(* Steps and sessions                                                      *)
(***************************************************************************)
\* in this step handler k resumes from its last await and answers a submission
FinishesSubmit(k) == handlers[k].pc = "files" /\ handlers'[k].pc = "done"

\* in this step handler k answers a request
Answers(k) == handlers'[k] # handlers[k] /\ handlers'[k].pc = "done"

LastPageId(template) == template.pages[Len(template.pages)].page_id

\* every page of a registered template, its final page included, has been
\* accepted for session s
Completed(s) ==
    /\ s # NoSession
    /\ \E tid \in DOMAIN templates :
          /\ templates[tid].pages # <<>>
          /\ \A i \in DOMAIN templates[tid].pages :
                <<s, tid, templates[tid].pages[i].page_id>> \in accepted

\* the index of the session's current page in a template: the first page
\* not yet accepted for it (one past the last page when all are)
CurrentIndex(s, template) ==
    LET open == {i \in DOMAIN template.pages :
                    <<s, template.template_id, template.pages[i].page_id>> \notin accepted}
    IN  IF open = {} THEN Len(template.pages) + 1
        ELSE CHOOSE i \in open : \A j \in open : i <= j

\* the field values a store holds: <<session, page_id, field name, value>>
FieldValues(sd) ==
    UNION {UNION {{<<s, p, n, sd[s][p][n]>> : n \in DOMAIN sd[s][p]} : p \in DOMAIN sd[s]} :
              s \in DOMAIN sd}

\* C3: a submission for a stored session that is answered by a re-render
\* with validation errors leaves the field values stored for every page of
\* every session as they were.
C3_FailedSubmissionKeepsData ==
    [][\A k \in DOMAIN handlers :
          (/\ FinishesSubmit(k)
           /\ handlers[k].req.session \in DOMAIN session_data
           /\ handlers'[k].resp.kind = "html")
              => FieldValues(session_data') = FieldValues(session_data)]_vars

\* C4: once every page up to the final one has been accepted for a session, no request
\* that carries the session's identifier is answered by a rendered page.
C4_NoRenderAfterCompleted ==
    [][\A k \in DOMAIN handlers :
          (/\ Answers(k)
           /\ handlers'[k].req.op \in {"show", "submit"}
           /\ Completed(handlers'[k].req.session))
              => handlers'[k].resp.kind # "html"]_vars

\* every page of the template has been accepted for a session for which
\* its final page has
SuccessOnlyAfterEveryPage ==
    \A a \in accepted :
        (/\ a[2] \in DOMAIN templates
         /\ templates[a[2]].pages # <<>>
         /\ a[3] = LastPageId(templates[a[2]]))
            => \A i \in DOMAIN templates[a[2]].pages :
                  <<a[1], a[2], templates[a[2]].pages[i].page_id>> \in accepted

\* C5: a render or submit request for a begun session that names a page of
\* the template other than the session's current page is answered by an
\* error; and success is reached only after every page was accepted.
C5_OnlyTheCurrentPage ==
    [][/\ \A k \in DOMAIN handlers :
             (/\ Answers(k)
              /\ handlers'[k].req.op \in {"show", "submit"}
              /\ handlers'[k].req.session \in DOMAIN session_data
              /\ handlers'[k].req.template_id \in DOMAIN templates
              /\ HasPage(templates[handlers'[k].req.template_id], handlers'[k].req.page_id)
              /\ PageIndex(templates[handlers'[k].req.template_id].pages,
                           handlers'[k].req.page_id)
                    # CurrentIndex(handlers'[k].req.session,
                                   templates[handlers'[k].req.template_id]))
                 => IsError(handlers'[k].resp)
       /\ SuccessOnlyAfterEveryPage']_vars

\* C6: a submission that carries the identifier of no stored session, or
\* of a completed session, is answered by an error and leaves the store as
\* it was (no session entry created, no data stored).
C6_UnknownSessionRejected ==
    [][\A k \in DOMAIN handlers :
          (/\ FinishesSubmit(k)
           /\ handlers[k].req.session # NoSession
           /\ \/ handlers[k].req.session \notin DOMAIN session_data
              \/ Completed(handlers[k].req.session))
              => /\ IsError(handlers'[k].resp)
                 /\ session_data' = session_data]_vars

\* C8: when two submissions for one session have both been answered, the
\* store and the two responses are those of running the two handlers one
\* after the other, in one of the two orders.
C8_ConcurrentSubmissionsSerialize ==
    (\A k \in DOMAIN handlers : handlers[k].pc = "done") =>
        \E first \in DOMAIN handlers, second \in DOMAIN handlers :
            /\ first # second
            /\ LET a == Serve(templates, RaceBase, handlers[first].req)
                   b == Serve(templates, a.sd, handlers[second].req)
               IN  /\ session_data = b.sd
                   /\ handlers[first].resp = a.resp
                   /\ handlers[second].resp = b.resp

\* C8 witness: both handlers have answered, one having stored page A anew
\* and the other page B, and the store holds both
C8_Witness ==
    /\ DOMAIN handlers = {1, 2}
    /\ \A k \in DOMAIN handlers : handlers[k].pc = "done"
    /\ handlers[1].req.page_id = "A" /\ handlers[1].req.form_data = EmptyDict
    /\ handlers[2].req.page_id = "B"
    /\ handlers[2].req.form_data = Put(EmptyDict, "email", AnnAtExample)
    /\ session_data[RaceSession] =
           Put(Put(EmptyDict, "A", EmptyDict), "B", Put(EmptyDict, "email", AnnAtExample))

\* C9: a submission for session s leaves the registry as it was, creates
\* or removes no other session and leaves the stored data of every other
\* session as it was.
C9_SubmitTouchesOnlyItsSession ==
    [][\A k \in DOMAIN handlers :
          FinishesSubmit(k) =>
              /\ templates' = templates
              /\ DOMAIN session_data \subseteq DOMAIN session_data'
              /\ DOMAIN session_data' \subseteq DOMAIN session_data \cup {handlers[k].req.session}
              /\ \A s \in DOMAIN session_data \ {handlers[k].req.session} :
                    session_data'[s] = session_data[s]]_vars

\* C9 witness: a submission for one session has been stored while another
\* session holds data of its own
C9_Witness ==
    \E k \in DOMAIN handlers, s \in DOMAIN session_data, o \in DOMAIN session_data :
        /\ s # o
        /\ Submitted(k)
        /\ handlers[k].req.session = s
        /\ handlers[k].req.page_id \in DOMAIN session_data[s]
        /\ session_data[s][handlers[k].req.page_id] # EmptyDict
        /\ session_data[o] # EmptyDict
        /\ session_data[o] # session_data[s]

\* C10: a begin request answered by the redirect to the first page has
\* created a session under an identifier that no stored session had, and
\* has left the data of every stored session as it was.
C10_BeginCreatesFreshSession ==
    [][\A k \in DOMAIN handlers :
          (/\ Answers(k)
           /\ handlers'[k].req.op = "start"
           /\ handlers'[k].resp.kind = "redirect")
              => /\ handlers'[k].resp.session \notin DOMAIN session_data
                 /\ \A s \in DOMAIN session_data : session_data'[s] = session_data[s]]_vars

\* the template a session identifier was built for by start_application
BoundTemplate(session) == session[1]

\* C11: a render or submit request that names a registered template other
\* than the one its session was begun for is answered by an error and
\* leaves the store, that session's data included, as it was.
C11_SessionBoundToOneTemplate ==
    [][\A k \in DOMAIN handlers :
          (/\ Answers(k)
           /\ handlers'[k].req.op \in {"show", "submit"}
           /\ handlers'[k].req.session \in DOMAIN session_data
           /\ handlers'[k].req.template_id \in DOMAIN templates
           /\ handlers'[k].req.template_id # BoundTemplate(handlers'[k].req.session))
              => /\ IsError(handlers'[k].resp)
                 /\ session_data' = session_data]_vars

\* the errors _validate_page returned to a finished submission
ReturnedErrors(k) ==
    IF handlers[k].resp.kind = "html" THEN handlers[k].resp.errors ELSE EmptyDict

\* the submitted value of a field is absent, empty or whitespace-only
IsBlank(field, form_data) ==
    ~Truthy(form_data, field.name) \/ Strip(form_data[field.name]) = <<>>

\* C12: for every required field of the validated page that is not a file
\* field, with or without a pattern: when its value is absent, empty or
\* whitespace-only the errors hold, under the field's name, the message
\* "<label> is required"; otherwise they hold no such message for it.
C12_RequiredFieldValidation ==
    \A k \in DOMAIN handlers :
        (Submitted(k) /\ SubmittedPage(k).validation_required) =>
            LET page == SubmittedPage(k)
                errors == ReturnedErrors(k)
            IN  \A i \in DOMAIN page.fields :
                    LET field == page.fields[i]
                    IN  (field.required /\ field.field_type # "file") =>
                            IF IsBlank(field, handlers[k].req.form_data)
                            THEN /\ field.name \in DOMAIN errors
                                 /\ errors[field.name] = RequiredMessage(field)
                            ELSE field.name \in DOMAIN errors
                                    => errors[field.name] # RequiredMessage(field)

\* the text of a field's format error: its custom message or, without
\* one, "<label> format is invalid"
FormatErrorText(field) ==
    IF field.validation_message = "" THEN field.label \o " format is invalid"
    ELSE field.validation_message

\* C13 as stated: for every field of the validated page that has a
\* pattern, a present value that does not match yields the format error
\* with the custom or the default text; a value that matches, or no value
\* on a field that is not required, yields no error under the field's name.
C13_PatternValidationNoError ==
    \A k \in DOMAIN handlers :
        (Submitted(k) /\ SubmittedPage(k).validation_required) =>
            LET page == SubmittedPage(k)
                form_data == handlers[k].req.form_data
                errors == ReturnedErrors(k)
            IN  \A i \in DOMAIN page.fields :
                    LET field == page.fields[i]
                        present == Truthy(form_data, field.name)
                    IN  field.validation_pattern # NoPattern =>
                            /\ (present /\ ~ReMatch(field.validation_pattern, form_data[field.name]))
                                  => /\ field.name \in DOMAIN errors
                                     /\ errors[field.name] = FormatErrorText(field)
                            /\ (present /\ ReMatch(field.validation_pattern, form_data[field.name]))
                                  => field.name \notin DOMAIN errors
                            /\ (~present /\ ~field.required)
                                  => field.name \notin DOMAIN errors

\* C13 amended: the same, except that a value that matches, or no value,
\* yields no format error: the only error the field can then have is the
\* missing-field error of a required field that fails the required check.
C13_PatternValidationNoFormatError ==
    \A k \in DOMAIN handlers :
        (Submitted(k) /\ SubmittedPage(k).validation_required) =>
            LET page == SubmittedPage(k)
                form_data == handlers[k].req.form_data
                errors == ReturnedErrors(k)
            IN  \A i \in DOMAIN page.fields :
                    LET field == page.fields[i]
                        present == Truthy(form_data, field.name)
                    IN  field.validation_pattern # NoPattern =>
                            /\ (present /\ ~ReMatch(field.validation_pattern, form_data[field.name]))
                                  => /\ field.name \in DOMAIN errors
                                     /\ errors[field.name] = FormatErrorText(field)
                            /\ (~present \/ ReMatch(field.validation_pattern, form_data[field.name]))
                                  => (field.name \in DOMAIN errors
                                        => /\ FailsRequired(field, form_data, handlers[k].req.files)
                                           /\ errors[field.name] = field.label \o " is required")
                            /\ (~present /\ ~field.required)
                                  => field.name \notin DOMAIN errors

\* C13 witness: a text field with a custom message was submitted with a
\* value that does not match its pattern and got the custom message, on a
\* page whose other field passed
C13_Witness ==
    \E k \in DOMAIN handlers :
        /\ Submitted(k)
        /\ Len(SubmittedPage(k).fields) = 2
        /\ SubmittedPage(k).fields[1].field_type = "text"
        /\ SubmittedPage(k).fields[1].validation_pattern = EmailPattern
        /\ "f" \in DOMAIN handlers[k].req.form_data
        /\ handlers[k].req.form_data["f"] = Ann
        /\ handlers[k].resp.kind = "html"
        /\ handlers[k].resp.errors = Put(EmptyDict, "f", "Enter a valid value")

(***************************************************************************)
(* Vocabulary of the tracker's properties                                  *)
(***************************************************************************)
TrackOps == {"track_interaction", "set_current_page", "track_field_fill", "track_button_click"}

\* this step is a track call (every track call lengthens the session log)
TrackStep == tracker' # tracker /\ call'.op \in TrackOps

\* this step is a finalize_session call
FinalizeStep == call'.op = "finalize_session" /\ (tracker' # tracker \/ call' # call)

IsPrefix(a, b) == Len(a) <= Len(b) /\ SubSeq(b, 1, Len(a)) = a

\* the log of a page, empty while the page has no entry
PageLog(t, page_id) ==
    IF page_id \in DOMAIN t.metrics.pages_metrics
    THEN t.metrics.pages_metrics[page_id].interactions ELSE <<>>

\* the two fractions are the same number
SamePercent(p, q) == p[1] * q[2] = q[1] * p[2]

\* the required fields of the tracker's template for which some page's
\* record holds a successful fill
FilledRequired ==
    {f \in TrackerFields :
        /\ f.required
        /\ \E p \in DOMAIN tracker.metrics.pages_metrics :
              /\ f.id \in DOMAIN tracker.metrics.pages_metrics[p].field_interactions
              /\ tracker.metrics.pages_metrics[p].field_interactions[f.id].was_filled}

\* C14: the total number of interactions is the number of successful ones
\* plus the number of failed ones, in every state of the tracker.
C14_MetricsConsistency ==
    tracker.metrics.total_interactions =
        tracker.metrics.successful_interactions + tracker.metrics.failed_interactions

\* C14 witness: a finalized tracker that counted both a success and a failure
C14_Witness ==
    /\ call.op = "finalize_session"
    /\ tracker.metrics.successful_interactions >= 1
    /\ tracker.metrics.failed_interactions >= 1
    /\ tracker.metrics.total_interactions = MaxEvents

\* C15: after finalize_session, for a template with at least one required
\* field, completion_percentage is 100 * fields_filled_correctly divided by
\* the template's number of required fields; and when the template has 2
\* required fields of which exactly 1 was filled, it is 50.0.
C15_CompletionPercentage ==
    (call.op = "finalize_session" /\ call.raised = NoneStr) =>
        LET total == TotalRequiredFields(TrackerPages)
        IN  total > 0 =>
                /\ SamePercent(tracker.metrics.completion_percentage,
                               Percentage(tracker.metrics.fields_filled_correctly, total))
                /\ (total = 2 /\ Cardinality(FilledRequired) = 1)
                      => SamePercent(tracker.metrics.completion_percentage, <<50, 1>>)

\* C16: finalize_session on a tracker whose template has no required field
\* raises nothing and leaves completion_percentage at 0.0.
C16_FinalizeZeroDenominator ==
    (call.op = "finalize_session" /\ TotalRequiredFields(TrackerPages) = 0) =>
        /\ call.raised = NoneStr
        /\ SamePercent(tracker.metrics.completion_percentage, ZeroPercent)

\* C16 witness: the tracker of the template without required fields was
\* finalized after its optional field was filled
C16_Witness ==
    /\ call.op = "finalize_session"
    /\ tracker.template_id = "opt"
    /\ TotalRequiredFields(TrackerPages) = 0
    /\ "A" \in DOMAIN tracker.metrics.pages_metrics
    /\ "nick" \in DOMAIN tracker.metrics.pages_metrics["A"].field_interactions
    /\ tracker.metrics.pages_metrics["A"].field_interactions["nick"].was_filled

\* C17: every step leaves the session log and every page's log a prefix of
\* what it becomes; a track call lengthens the session log by exactly one
\* event and, when a page is active, appends that same event to the active
\* page's log, leaving every other page's log as it was.
C17_LogsAppendOnly ==
    [][/\ IsPrefix(tracker.interactions, tracker'.interactions)
       /\ \A p \in DOMAIN tracker.metrics.pages_metrics :
             /\ p \in DOMAIN tracker'.metrics.pages_metrics
             /\ IsPrefix(PageLog(tracker, p), PageLog(tracker', p))
       /\ TrackStep =>
             /\ Len(tracker'.interactions) = Len(tracker.interactions) + 1
             /\ StrTruthy(tracker'.current_page_id) =>
                   PageLog(tracker', tracker'.current_page_id) =
                       Append(PageLog(tracker, tracker'.current_page_id),
                              tracker'.interactions[Len(tracker'.interactions)])
             /\ \A p \in DOMAIN tracker'.metrics.pages_metrics :
                   p # tracker'.current_page_id => PageLog(tracker', p) = PageLog(tracker, p)
       /\ ~TrackStep => tracker'.interactions = tracker.interactions]_vars

\* C17 witness: the session log holds an event tracked before any page was
\* active, page A's log holds one event, and page B, now active, another
C17_Witness ==
    /\ Len(tracker.interactions) = 3
    /\ tracker.current_page_id = "B"
    /\ Len(PageLog(tracker, "A")) = 1
    /\ Len(PageLog(tracker, "B")) = 1
    /\ PageLog(tracker, "B")[1] = tracker.interactions[3]

\* the record of every field agrees with its attempts: was_filled says
\* that some attempt succeeded, final_value is the value of the last
\* attempt that succeeded (None when none did)
FieldRecordsAgree(t) ==
    \A p \in DOMAIN t.metrics.pages_metrics :
        \A f \in DOMAIN t.metrics.pages_metrics[p].field_interactions :
            LET r == t.metrics.pages_metrics[p].field_interactions[f]
                won == {i \in DOMAIN r.attempts : r.attempts[i].success}
            IN  /\ r.was_filled = (won # {})
                /\ r.final_value =
                      IF won = {} THEN NoneValue
                      ELSE r.attempts[CHOOSE i \in won : \A j \in won : j <= i].value

\* the attempts recorded for a field of a page, none while it has no record
Attempts(t, page_id, field_id) ==
    IF /\ page_id \in DOMAIN t.metrics.pages_metrics
       /\ field_id \in DOMAIN t.metrics.pages_metrics[page_id].field_interactions
    THEN t.metrics.pages_metrics[page_id].field_interactions[field_id].attempts
    ELSE <<>>

\* C18: a track_field_fill call made while a page is active appends the
\* attempt, with the call's value and outcome, to the record of that field
\* on that page; and in every state every field's was_filled is true iff
\* one of its attempts succeeded and its final_value is the value of its
\* most recent successful attempt.
C18_FieldRecordFollowsFills ==
    [][/\ FieldRecordsAgree(tracker')
       /\ (TrackStep /\ call'.op = "track_field_fill" /\ StrTruthy(tracker.current_page_id))
             => LET was == Attempts(tracker, tracker.current_page_id, call'.field_id)
                    is  == Attempts(tracker', tracker.current_page_id, call'.field_id)
                IN  /\ Len(is) = Len(was) + 1
                    /\ SubSeq(is, 1, Len(was)) = was
                    /\ is[Len(is)].element_id = call'.field_id
                    /\ is[Len(is)].value = call'.value
                    /\ is[Len(is)].success = call'.success]_vars

\* C18 witness: a field was filled with success and then attempted without;
\* its final_value is still the value of the successful fill
C18_Witness ==
    /\ tracker.current_page_id = "B"
    /\ Len(Attempts(tracker, "B", "email")) = 2
    /\ Attempts(tracker, "B", "email")[1].success
    /\ Attempts(tracker, "B", "email")[1].value = AnnAtExample
    /\ ~Attempts(tracker, "B", "email")[2].success
    /\ tracker.metrics.pages_metrics["B"].field_interactions["email"].final_value = AnnAtExample
    /\ tracker.metrics.pages_metrics["B"].field_interactions["email"].was_filled

\* C19: the session's fields_filled is the number of successful field-fill
\* interactions in the session log, and the session's validation_errors is
\* the number of validation-error interactions in it.
C19_SessionAggregatesAreFolds ==
    /\ tracker.metrics.fields_filled =
          Cardinality({i \in DOMAIN tracker.interactions :
                          /\ tracker.interactions[i].interaction_type = "field_fill"
                          /\ tracker.interactions[i].success})
    /\ tracker.metrics.validation_errors =
          Cardinality({i \in DOMAIN tracker.interactions :
                          tracker.interactions[i].interaction_type = "validation_error"})

ExportStep == call'.op = "export_to_json" /\ (filesystem' # filesystem \/ call' # call)

\* the exported entry describes the tracked interaction
Describes(entry, interaction) ==
    /\ entry.type = interaction.interaction_type
    /\ entry.element_id = interaction.element_id
    /\ entry.action = interaction.action
    /\ entry.value = interaction.value
    /\ entry.success = interaction.success
    /\ entry.error_message = interaction.error_message
    /\ entry.page_url = interaction.page_url

\* C21: the document an export writes has one entry per tracked interaction,
\* in order of occurrence; its total_interactions metric is the length of
\* that list; and it has a summary for every page that was made current.
C21_ExportHoldsWholeSequence ==
    [][ExportStep =>
        LET doc == filesystem'[call'.filepath]
        IN  /\ Len(doc.interactions) = Len(tracker.interactions)
            /\ \A n \in DOMAIN tracker.interactions :
                  Describes(doc.interactions[n], tracker.interactions[n])
            /\ doc.metrics.total_interactions = Len(doc.interactions)
            /\ \A n \in DOMAIN tracker.metrics.pages_visited :
                  /\ tracker.metrics.pages_visited[n] \in DOMAIN doc.pages
                  /\ doc.pages[tracker.metrics.pages_visited[n]].page_id =
                        tracker.metrics.pages_visited[n]]_vars

\* an export of a run that tracked a failing and a succeeding interaction
\* on a page that was made current
C21_Witness ==
    /\ call.op = "export_to_json"
    /\ call.filepath \in DOMAIN filesystem
    /\ Len(filesystem[call.filepath].interactions) = 2
    /\ ~filesystem[call.filepath].interactions[2].success
    /\ filesystem[call.filepath].interactions[1].type = "page_load"
    /\ DOMAIN filesystem[call.filepath].pages # {}

(***************************************************************************)
(* Vocabulary of the runner's properties                                   *)
(***************************************************************************)
\* this step is a run_test call made on a started server for a registered
\* template, with an agent that raises
RunTestOfRaisingAgent ==
    /\ runner' # runner
    /\ runner.pc = "idle" /\ runner'.pc = "idle"
    /\ runner'.last.op = "run_test"
    /\ runner.server
    /\ runner'.last.template_id \in DOMAIN templates
    /\ runner'.last.agent.stage \in {"import", "getattr", "construct", "run"}

\* the call returned a failed result that carries the exception
FailedWith(outcome, e) ==
    /\ outcome.raised = NoException
    /\ outcome.value.success = FALSE
    /\ outcome.value.error_type = e.type
    /\ outcome.value.error = e.message

\* C22 (as stated): for a started server and a registered template, any
\* exception raised while importing, constructing or running the agent is
\* caught by run_test, which returns a failed result carrying the
\* exception's type name and message; it never propagates.
C22_AgentExceptionsCaught ==
    [][RunTestOfRaisingAgent =>
        FailedWith(runner'.last.outcome, runner'.last.agent.raises)]_vars

\* C22 (amended): the same for every exception whose class derives from
\* Exception; an exception that derives from BaseException only
\* (KeyboardInterrupt, SystemExit) propagates to the caller.
C22_ExceptionSubclassesCaught ==
    [][RunTestOfRaisingAgent =>
        IF runner'.last.agent.raises.is_exception
        THEN FailedWith(runner'.last.outcome, runner'.last.agent.raises)
        ELSE runner'.last.outcome = Raised(runner'.last.agent.raises)]_vars

\* a run whose agent timed out while running, answered by a failed result
C22_Witness ==
    /\ runner.last.op = "run_test"
    /\ runner.server
    /\ runner.last.template_id \in DOMAIN templates
    /\ runner.last.agent.stage = "run"
    /\ runner.last.agent.raises.type = "TimeoutError"
    /\ runner.last.outcome.raised = NoException
    /\ runner.last.outcome.value.error_type = "TimeoutError"

\* the suite call has returned its summary
SuiteReturned ==
    /\ runner.last.op = "run_test_suite"
    /\ runner.pc = "idle"
    /\ runner.last.outcome.raised = NoException

\* the completion percentage a result carries; a result without metrics
\* (a failed run) carries none and counts as 0
CompletionOf(result) ==
    IF "metrics" \in DOMAIN result THEN result.metrics.completion_percentage
    ELSE ZeroPercent

\* the sum of the fractions fs[1..n]
RECURSIVE TotalOf(_, _)
TotalOf(fs, n) ==
    IF n = 0 THEN ZeroPercent
    ELSE <<TotalOf(fs, n - 1)[1] * fs[n][2] + fs[n][1] * TotalOf(fs, n - 1)[2],
           TotalOf(fs, n - 1)[2] * fs[n][2]>>

ReadBack == loaded.op = "from_dict" /\ loaded.removed = NoRemoval

\* C24: round trip: for every template T, from_dict(to_dict(T)) returns a
\* template equal to T.
C24_RoundTrip ==
    ReadBack => loaded.outcome = [raised |-> NoException, value |-> loaded.template]

\* a template of two pages, with options and with every optional attribute
\* set, has made the round trip
C24_Witness ==
    /\ ReadBack
    /\ Len(loaded.template.pages) = 2
    /\ loaded.template.metadata # EmptyDict
    /\ loaded.template.pages[1].fields # <<>>
    /\ loaded.template.pages[1].fields[1].options = <<>>
    /\ loaded.template.pages[2].back_button_text = "Back"
    /\ loaded.template.pages[2].fields[1].options # <<>>
    /\ loaded.template.pages[2].fields[1].options[1].is_default
    /\ loaded.outcome.value.pages[2].fields[1].options[1].is_default

\* from_dict has been called on a document that lacks one of its keys
ReadWithoutKey == loaded.op = "from_dict" /\ loaded.removed # NoRemoval

\* C25: from_dict on a document that lacks a required key, at template,
\* page or field level, the page list and a page's field list included,
\* fails with a SchemaError (whose message names the key and its location)
\* and produces no template.
C25_MissingKeyIsSchemaError ==
    ReadWithoutKey =>
        /\ loaded.outcome.raised.type = "SchemaError"
        /\ loaded.outcome.value = NoResult

\* the identifiers of the list's items are pairwise different
UniqueIds(items, Id(_)) ==
    \A m, n \in DOMAIN items : Id(items[m]) = Id(items[n]) => m = n

PageIdOf(page) == page.page_id
FieldIdOf(field) == field.id

\* C26: a template with two pages of the same page identifier, or with two
\* fields of the same identifier within a page, is rejected when it is
\* constructed or deserialized; so in every registered template the page
\* identifiers are unique, as are the field identifiers within each page,
\* and a page identifier resolves to exactly one page.
C26_RegisteredIdsUnique ==
    /\ loaded.op = "from_dict" /\ loaded.outcome.raised = NoException =>
          /\ UniqueIds(loaded.outcome.value.pages, PageIdOf)
          /\ \A i \in DOMAIN loaded.outcome.value.pages :
                UniqueIds(loaded.outcome.value.pages[i].fields, FieldIdOf)
    /\ \A template_id \in DOMAIN templates :
          /\ UniqueIds(templates[template_id].pages, PageIdOf)
          /\ \A i \in DOMAIN templates[template_id].pages :
                UniqueIds(templates[template_id].pages[i].fields, FieldIdOf)

(***************************************************************************)
(* Vocabulary of the properties of show_page                               *)
(***************************************************************************)
\* handler k answers a GET for a page in this step
Shows(k) ==
    /\ handlers'[k] # handlers[k]
    /\ handlers'[k].pc = "done"
    /\ handlers'[k].req.op = "show"

\* the request names a template, a page of it and a stored session
KnownTarget(req) ==
    /\ req.template_id \in DOMAIN templates
    /\ HasPage(templates[req.template_id], req.page_id)
    /\ req.session # NoSession => req.session \in DOMAIN session_data

\* C27: a GET for a page whose template identifier, page identifier or
\* session identifier is unknown is answered by a not-found error and
\* renders nothing; no GET for a page changes the registry or any session
\* data.
C27_ShowUnknownIsNotFound ==
    [][\A k \in DOMAIN handlers :
          Shows(k) =>
              /\ ~KnownTarget(handlers'[k].req) => handlers'[k].resp.kind = "404"
              /\ templates' = templates
              /\ session_data' = session_data]_vars

(***************************************************************************)
(* Vocabulary of the properties of rendering                               *)
(***************************************************************************)
\* handler k answers with a rendered page in this step
Renders(k) ==
    /\ handlers'[k] # handlers[k]
    /\ handlers'[k].pc = "done"
    /\ handlers'[k].resp.kind = "html"

\* the page a request is for
RequestedPage(req) == FindPage(templates[req.template_id], req.page_id)

\* the previous answer of handler k was a render of the same page with the
\* same error map
RenderedBefore(k) ==
    /\ handlers[k].pc = "done"
    /\ handlers[k].resp.kind = "html"
    /\ RequestedPage(handlers[k].req) = RequestedPage(handlers'[k].req)
    /\ handlers[k].resp.errors = handlers'[k].resp.errors

\* C28: rendering is a function of the page and the error map alone: a
\* render equals the render of the same page and errors under any other
\* session identifier, it equals the previous render of the same page and
\* errors whatever was stored or requested in between, and a GET that
\* renders changes no server state.
C28_RenderingIsPure ==
    [][\A k \in DOMAIN handlers :
          Renders(k) =>
              /\ \A session \in SessionInputs :
                    handlers'[k].resp.html =
                        GeneratePageHtml(templates[handlers'[k].req.template_id],
                                         RequestedPage(handlers'[k].req), session,
                                         handlers'[k].resp.errors)
              /\ RenderedBefore(k) => handlers'[k].resp.html = handlers[k].resp.html
              /\ handlers'[k].req.op = "show" =>
                    /\ templates' = templates
                    /\ session_data' = session_data]_vars

\* page A rendered for one session right after it was rendered for another
\* session, with data stored in between the two sessions' creation
C28_Witness ==
    \E k \in DOMAIN handlers :
        /\ handlers[k].pc = "done"
        /\ handlers[k].req.op = "show"
        /\ handlers[k].resp.kind = "html"
        /\ handlers[k].req.session \in DOMAIN session_data
        /\ session_data[handlers[k].req.session] # EmptyDict
        /\ \E other \in DOMAIN session_data :
              other # handlers[k].req.session /\ session_data[other] = EmptyDict

(***************************************************************************)
(* Vocabulary of the resume parser's properties                            *)
(***************************************************************************)
\* the request has been received
Received == parser.pc \notin {"none", "idle"}

\* the calls of one kind the request has made, by position in parser.calls
CallsOf(name) == {n \in DOMAIN parser.calls : parser.calls[n].call = name}

\* the validations that returned, with the given verdict
Verdicts(valid) ==
    {n \in CallsOf("validate_output") :
        ~parser.calls[n].raised /\ parser.calls[n].valid = valid}

Answered == Received /\ parser.pc = "done"

AnsweredSuccess ==
    Answered /\ parser.response.status_code = 200 /\ parser.response.status = "success"

\* at most 3 attempts; after 3 failed validations the request has failed
\* with 422 and no fourth parse call was made; a passed validation is the
\* last one and no parse call follows it
AttemptsBounded ==
    Received =>
        /\ Cardinality(CallsOf("parse_resume")) <= 3
        /\ Cardinality(CallsOf("validate_output")) <= 3
        /\ Cardinality(Verdicts(FALSE)) = 3 =>
              /\ Answered
              /\ parser.response.status_code = 422
              /\ Cardinality(CallsOf("parse_resume")) = 3
        /\ \A n \in Verdicts(TRUE) :
              \A m \in CallsOf("parse_resume") \cup CallsOf("validate_output") : m <= n

\* a call of the request raised: parse_resume, validate_output or the
\* forwarding of the data
SomeCallRaised == \E n \in DOMAIN parser.calls : parser.calls[n].raised

\* C29 (as stated): the request makes at most 3 parse-then-validate
\* attempts and always terminates; it returns success on the first attempt
\* whose validation passes, and after 3 failed validations it fails with
\* HTTP 422 without a fourth parse call.
C29_BoundedRetries ==
    /\ [](AttemptsBounded
          /\ (Answered /\ Verdicts(TRUE) # {} => AnsweredSuccess))
    /\ (Received ~> Answered)

\* C29 (amended): the same, except that an attempt whose validation passed
\* ends in success only if forwarding the data, when an endpoint is set,
\* does not fail; if it fails the request ends with HTTP 500.
C29_BoundedRetriesUnlessForwardFails ==
    /\ [](AttemptsBounded
          /\ (Answered /\ Verdicts(TRUE) # {} =>
                IF SomeCallRaised THEN parser.response.status_code = 500
                ELSE AnsweredSuccess))
    /\ (Received ~> Answered)

\* three validations failed and the request was answered with 422
C29_Witness ==
    /\ Answered
    /\ Cardinality(Verdicts(FALSE)) = 3
    /\ Cardinality(CallsOf("parse_resume")) = 3
    /\ parser.response.status_code = 422

\* the last validation that returned before call n of the request
ValidationBefore(n) ==
    CHOOSE v \in CallsOf("validate_output") :
        v < n /\ \A w \in CallsOf("validate_output") : w < n => w <= v

\* C30: the first parse attempt is given no validation error, and each
\* later attempt is given the reason that the validation of the attempt
\* just before it returned, not an older one.
C30_ReasonFedBack ==
    Received =>
        \A n \in CallsOf("parse_resume") :
            IF \A m \in CallsOf("parse_resume") : n <= m
            THEN parser.calls[n].arg = NoneStr
            ELSE /\ \E v \in CallsOf("validate_output") : v < n
                 /\ ~parser.calls[ValidationBefore(n)].valid
                 /\ parser.calls[n].arg = parser.calls[ValidationBefore(n)].reason

\* a third attempt was made after two validations that failed for
\* different reasons
C30_Witness ==
    /\ Received
    /\ Cardinality(CallsOf("parse_resume")) = 3
    /\ parser.calls[2].reason = "dates do not match"
    /\ parser.calls[4].reason = "name is missing"
    /\ parser.calls[5].arg = "name is missing"

(***************************************************************************)
(* Vocabulary of start_server's properties                                 *)
(***************************************************************************)
StartServerCalled == runner.last.op = "start_server" /\ "probes" \in DOMAIN runner.last

StartServerEnded == StartServerCalled /\ runner.pc = "idle"

\* at most 10 probes; a 200 is the last probe and start_server has returned;
\* a call that ended without a 200 raised after 10 probes
ProbesBounded ==
    StartServerCalled =>
        LET probes == runner.last.probes
        IN  /\ Len(probes) <= 10
            /\ \A n \in DOMAIN probes :
                  probes[n] = "200" =>
                      /\ n = Len(probes)
                      /\ StartServerEnded
                      /\ runner.last.outcome.raised = NoException
            /\ (StartServerEnded /\ \A n \in DOMAIN probes : probes[n] # "200") =>
                  /\ Len(probes) = 10
                  /\ runner.last.outcome.raised.type = "RuntimeError"

\* C31: start_server makes at most 10 readiness probes, returns as soon as
\* one is answered with status 200, and otherwise ends with a reported error
\* instead of hanging, whatever the probes meet: a connection error, another
\* status, or no answer at all.
C31_StartServerEnds ==
    /\ []ProbesBounded
    /\ (StartServerCalled ~> StartServerEnded)

(***************************************************************************)
(* Vocabulary of the encryption service's properties                       *)
(***************************************************************************)
\* the document was decrypted last, by a service that has the key of the
\* service that encrypted it
DecryptedWithSameKey ==
    /\ encryption.last.op = "decrypt_profile"
    /\ encryption.services[encryption.last.service]
         = encryption.services[encryption.document.service]

\* C32: decrypt_profile(encrypt_profile(p)) gives p back without an
\* exception, for every profile and key, also when the decrypting service
\* is another instance made with the same key.
C32_RoundTrip ==
    DecryptedWithSameKey =>
        /\ encryption.last.outcome.raised = NoException
        /\ encryption.last.outcome.value = encryption.document.profile

\* a profile with escaped characters, nested values and a negative number,
\* encrypted by one service and decrypted by another one with the same key
C32_Witness ==
    /\ DecryptedWithSameKey
    /\ encryption.last.service # encryption.document.service
    /\ encryption.document.profile = NestedProfile
    /\ encryption.last.outcome.value = NestedProfile

\* C33: encrypt_profile_simple makes the key file only when there is none
\* and leaves it as it is otherwise: after any calls on one key path the
\* file holds what the first call wrote, and every ciphertext of those calls
\* is decrypted by decrypt_profile_simple to the profile it was made from.
C33_KeyFileKept ==
    /\ \A path \in DOMAIN encryption.first :
          /\ path \in DOMAIN filesystem
          /\ filesystem[path] = encryption.first[path]
    /\ encryption.sealed # <<>> => DefaultKeyPath \in DOMAIN encryption.first
    /\ (encryption.last.op = "decrypt_profile_simple"
        /\ encryption.last.key_filepath = DefaultKeyPath) =>
          encryption.last.outcome
            = Returned(encryption.sealed[encryption.last.n].profile)

\* two calls with different profiles and nonces, and the first ciphertext
\* decrypted after the second call
C33_Witness ==
    /\ Len(encryption.sealed) = 2
    /\ encryption.sealed[1].profile # encryption.sealed[2].profile
    /\ encryption.sealed[1].encrypted.nonce # encryption.sealed[2].encrypted.nonce
    /\ encryption.last.op = "decrypt_profile_simple"
    /\ encryption.last.n = 1
    /\ encryption.last.key_filepath = DefaultKeyPath
    /\ encryption.last.outcome.value = encryption.sealed[1].profile

\* this step is a run_test call made on a started server for a registered
\* template, with an agent whose run returns its flag
RunTestOfReturningAgent ==
    /\ runner' # runner
    /\ runner.pc = "idle" /\ runner'.pc = "idle"
    /\ runner'.last.op = "run_test"
    /\ runner.server
    /\ runner'.last.template_id \in DOMAIN templates
    /\ runner'.last.agent.stage = "return"

\* C34: when the agent's run returns normally with success flag s for a
\* registered template, run_test returns a result whose success is s, and
\* not a result that reports an error.
C34_ReturnedFlagReported ==
    [][RunTestOfReturningAgent =>
        /\ runner'.last.outcome.raised = NoException
        /\ runner'.last.outcome.value.success = runner'.last.agent.success
        /\ "error" \notin DOMAIN runner'.last.outcome.value]_vars

\* this step is the begin request of handler k, made for a registered
\* template
BeginsRegistered(k) ==
    /\ handlers'[k] # handlers[k]
    /\ handlers'[k].pc = "done"
    /\ handlers'[k].req.op = "start"
    /\ handlers'[k].req.template_id \in DOMAIN templates

\* C35: a begin request for a registered template stores a session with
\* empty collected data and directs the client to the template's page at
\* index 0 with that session, for every registered template, one without
\* pages included.
C35_BeginOpensFirstPage ==
    [][\A k \in DOMAIN handlers :
          BeginsRegistered(k) =>
              LET resp == handlers'[k].resp
                  pages == templates[handlers'[k].req.template_id].pages
              IN  /\ resp.kind = "redirect"
                  /\ resp.session \in DOMAIN session_data'
                  /\ session_data'[resp.session] = EmptyDict
                  /\ pages # <<>>
                  /\ resp.page_id = pages[1].page_id]_vars

\* C36: a submission of a page whose validation_required flag is false is
\* never stopped by a validator: it is answered by the redirect to the next
\* page, or to success on the last page, whatever was submitted, missing
\* required fields included.
C36_UnvalidatedPageAdvances ==
    \A k \in DOMAIN handlers :
        (Submitted(k) /\ ~SubmittedPage(k).validation_required) =>
            LET h == handlers[k]
                pages == SubmittedTemplate(k).pages
                i == SubmittedIndex(k)
            IN  IF i = Len(pages) THEN h.resp = RedirectToSuccess(h.req.session)
                ELSE h.resp = RedirectToPage(pages[i + 1].page_id, h.req.session)

\* a page that is not validated was submitted without its required field
\* and with a value that does not match the field's pattern, and was
\* answered by the redirect to the next page
C36_Witness ==
    \E k \in DOMAIN handlers :
        /\ Submitted(k)
        /\ ~SubmittedPage(k).validation_required
        /\ Cardinality(FailingNames(SubmittedPage(k), handlers[k].req.form_data,
                                    handlers[k].req.files)) = 2
        /\ "g" \notin DOMAIN handlers[k].req.form_data
        /\ handlers[k].resp = RedirectToPage("next", handlers[k].req.session)

\* this step ends a suite call by an exception
SuiteAborted ==
    /\ runner.pc = "suite"
    /\ runner'.pc = "idle"
    /\ runner'.last.outcome.raised # NoException

RECURSIVE SumLogLengths(_, _)
SumLogLengths(t, qs) ==
    IF qs = {} THEN 0
    ELSE LET q == CHOOSE x \in qs : TRUE
         IN  Len(PageLog(t, q)) + SumLogLengths(t, qs \ {q})

\* this step tracks one interaction
TracksOne == Len(tracker'.interactions) = Len(tracker.interactions) + 1

\* C38: an interaction tracked while page p is current is appended to the
\* log of p and to no other page's log, one tracked before the first
\* set_current_page to none, and the lengths of the page logs never add up
\* to more than total_interactions.
C38_OnePageLogPerInteraction ==
    /\ [](SumLogLengths(tracker, DOMAIN tracker.metrics.pages_metrics)
            <= tracker.metrics.total_interactions)
    /\ [][TracksOne =>
            LET interaction == tracker'.interactions[Len(tracker'.interactions)]
                p == tracker'.current_page_id
            IN  /\ DOMAIN tracker'.metrics.pages_metrics
                     = DOMAIN tracker.metrics.pages_metrics
                       \cup (IF p = NoneStr THEN {} ELSE {p})
                /\ \A q \in DOMAIN tracker'.metrics.pages_metrics :
                      PageLog(tracker', q)
                        = IF q = p THEN Append(PageLog(tracker, q), interaction)
                          ELSE PageLog(tracker, q)]_vars

\* one interaction tracked before any page was current, then one on each of
\* two pages
C38_Witness ==
    /\ tracker.metrics.total_interactions = 3
    /\ tracker.interactions[1].interaction_type = "field_fill"
    /\ DOMAIN tracker.metrics.pages_metrics = {"A", "B"}
    /\ Len(PageLog(tracker, "A")) = 1
    /\ Len(PageLog(tracker, "B")) = 1
    /\ tracker.current_page_id = "B"

(***************************************************************************)
(* C39: finalize_session changes only end_time, total_duration_ms, success *)
(* and completion_percentage. The interaction log, every counter,          *)
(* pages_visited and all page metrics are after the call what they were    *)
(* before it, also when the tracker had been finalized before.             *)
(***************************************************************************)
\* the counters of a session's metrics
Counters(metrics) ==
    <<metrics.total_interactions, metrics.successful_interactions,
      metrics.failed_interactions, metrics.fields_filled,
      metrics.fields_filled_correctly, metrics.buttons_clicked,
      metrics.buttons_failed, metrics.validation_errors>>

\* the tracker with the four fields finalize_session writes taken from another
WithFinalizedFields(t, other) ==
    [t EXCEPT !.metrics.end_time = other.metrics.end_time,
              !.metrics.total_duration_ms = other.metrics.total_duration_ms,
              !.metrics.success = other.metrics.success,
              !.metrics.completion_percentage = other.metrics.completion_percentage]

\* C39: a finalize_session step leaves the interaction log, the counters,
\* pages_visited, the page metrics and every other field but the four it
\* writes as they were
C39_FinalizeFrame ==
    [][FinalizeStep =>
          /\ tracker'.interactions = tracker.interactions
          /\ Counters(tracker'.metrics) = Counters(tracker.metrics)
          /\ tracker'.metrics.pages_visited = tracker.metrics.pages_visited
          /\ tracker'.metrics.pages_metrics = tracker.metrics.pages_metrics
          /\ tracker' = WithFinalizedFields(tracker, tracker')]_vars

\* a tracker finalized with a page visited, a fill counted on that page and
\* in the session's counters, and both in the page's log
C39_Witness ==
    /\ call.op = "finalize_session"
    /\ tracker.metrics.end_time = now
    /\ Len(tracker.interactions) >= 2
    /\ Len(tracker.metrics.pages_visited) >= 1
    /\ tracker.metrics.successful_interactions >= 2
    /\ \E p \in DOMAIN tracker.metrics.pages_metrics :
          /\ Len(PageLog(tracker, p)) >= 2
          /\ tracker.metrics.pages_metrics[p].fields_filled >= 1

(***************************************************************************)
(* C40: in the /parse request the parsed data is forwarded only after a    *)
(* validation that passed, at most once, to the request's endpoint if one  *)
(* is given and else to the default endpoint; with neither set nothing is  *)
(* forwarded and the data is returned; a forwarding that fails ends the    *)
(* request with status 500 and no parse call follows it.                   *)
(***************************************************************************)
\* an endpoint that is set: neither None nor the empty string
EndpointGiven(endpoint) == endpoint # NoneStr /\ endpoint # ""

\* the endpoint the claim names for the request
EndpointOfRequest ==
    IF EndpointGiven(parser.endpoint) THEN parser.endpoint ELSE parser.default_endpoint

Forwardings == CallsOf("send_to_endpoint")

\* C40: every forwarding follows at once a validation that passed, goes to
\* the request's endpoint if given and else to the default endpoint, and is
\* the last call of the request, so there is at most one; a request answered
\* after a validation that passed has forwarded exactly when one of the two
\* endpoints is set, and with neither set it returned the parsed data; a
\* forwarding that raised ended the request with status 500
C40_ForwardedOnceAfterValidation ==
    Received =>
        /\ Cardinality(Forwardings) <= 1
        /\ \A n \in Forwardings :
              /\ (n - 1) \in Verdicts(TRUE)
              /\ n = Len(parser.calls)
              /\ parser.calls[n].arg = EndpointOfRequest
              /\ EndpointGiven(parser.calls[n].arg)
              /\ Answered
              /\ parser.response =
                    IF parser.calls[n].raised
                    THEN HttpError(500, "Endpoint error")
                    ELSE SuccessForwarded(parser.parsed, EndpointOfRequest)
        /\ (Answered /\ Verdicts(TRUE) # {} /\ EndpointGiven(EndpointOfRequest))
              => Forwardings # {}
        /\ (~EndpointGiven(parser.endpoint) /\ ~EndpointGiven(parser.default_endpoint))
              => /\ Forwardings = {}
                 /\ (Answered /\ Verdicts(TRUE) # {})
                       => parser.response = Success(parser.parsed)

\* a request with an empty endpoint of its own whose second attempt passed
\* validation and whose forwarding to the default endpoint failed
C40_Witness ==
    /\ Answered
    /\ parser.endpoint = ""
    /\ EndpointGiven(parser.default_endpoint)
    /\ Cardinality(CallsOf("parse_resume")) = 2
    /\ \E n \in Forwardings :
          /\ parser.calls[n].raised
          /\ parser.calls[n].arg = parser.default_endpoint
    /\ parser.response.status_code = 500

====
